---- MODULE Spec2Model ----
(***************************************************************************)
(* Bosch converters of zigbee-herdsman-converters                          *)
(*   src/src/devices/bosch.ts   device definitions, tzLocal, fzLocal       *)
(*   src/src/lib/bosch.ts       boschModernExtend                          *)
(*                                                                         *)
(* The specifications share the variables:                                 *)
(*   SpecButton     the Universal Switch II raw button decoder             *)
(*   SpecDecode     the decoders that answer the device: Twinguard         *)
(*                  genAlarms and the thermostat's ignoreDst               *)
(*   SpecSet        the encode converters (convertSet, convertGet) and the *)
(*                  operations they issue                                  *)
(*   SpecSiren      the outdoor siren: sets, and read responses decoded    *)
(*   SpecConfigure  the configure sequences, step by step                  *)
(*   SpecReport     the reports of the BMCT-SLZ and what it exposes        *)
(*   SpecRoundTrip  the Twinguard and BMCT-SLZ enumerations, set and       *)
(*                  reported                                               *)
(*   SpecEnumDecode the decoders of wire codes, with codes outside their   *)
(*                  tables                                                 *)
(*   SpecMeasurements the Twinguard measurement reports                    *)
(***************************************************************************)
EXTENDS Integers, Sequences, FiniteSets, TLC

VARIABLES
    transactionStore,   \* lib/utils: sequence numbers already processed, per endpoint
    store,              \* lib/store (globalStore): per endpoint, key -> value
    inflight,           \* per endpoint: confirmButtonPressed commands not yet settled
    longpressActions,   \* history: per endpoint and button, longpress actions since the last release
    msg,                \* the inbound message handed to the last decode
    result,             \* what that decode returned (a patch, or Undefined)
    threw,              \* whether that decode rejected
    logged,             \* what that decode logged through logger.error
    cleared,            \* history: whether its globalStore.clearValue found an entry
    sent,               \* the command or response that decode issued
    call,               \* the convertSet invocation in progress
    wire,               \* the operations that invocation has issued, in order
    ret,                \* what that invocation returned
    rx,                 \* the last attribute report or read response decoded
    deviceMeta,         \* meta.device.meta.deviceMode of the BMCT-SLZ: {} while unset
    storedDeviceMode    \* the deviceMode stored for endpoint 1 of the BMCT-SLZ: {} while unknown

vars == <<transactionStore, store, inflight, longpressActions,
          msg, result, threw, logged, cleared, sent, call, wire, ret, rx,
          deviceMeta, storedDeviceMode>>

buttonVars == <<transactionStore, store, inflight, longpressActions>>
decodeVars == <<msg, result, threw, logged, cleared, sent>>
setVars == <<call, wire, ret, rx, deviceMeta, storedDeviceMode>>

(***************************************************************************)
(* Bounds of the model                                                     *)
(***************************************************************************)
MaxSeq == 1             \* sequence numbers 0..MaxSeq (payload byte 3)

\* the inputs of the button decoder
Endpoints == {1, 2}         \* endpoints, of two devices, that send button messages
SequenceNumbers == 0..MaxSeq

\* JavaScript's undefined as a value: a missing table entry, a call not made
Undefined == "undefined"
\* a converter that returned undefined instead of a patch
Nothing == [returned |-> "undefined"]
\* a message or invocation that has not happened yet
NoMsg == [conv |-> "none"]
\* a decode that issued no command
NoCommand == [cmd |-> "none"]

(***************************************************************************)
(* lib/utils hasAlreadyProcessedMessage and lib/store                      *)
(***************************************************************************)
\* the check: has this endpoint already delivered sequence number seq
hasAlreadyProcessedMessage(ep, seq) == seq \in transactionStore[ep]

\* its effect when the answer is no: the sequence number is remembered
rememberTransaction(ep, seq) ==
    [transactionStore EXCEPT ![ep] = @ \cup {seq}]

globalStore_hasValue(st, entity, key) == key \in DOMAIN st[entity]

globalStore_putValue(st, entity, key, value) ==
    [st EXCEPT ![entity] =
        [k \in DOMAIN @ \cup {key} |-> IF k = key THEN value ELSE @[k]]]

globalStore_clearValue(st, entity, key) ==
    [st EXCEPT ![entity] = [k \in DOMAIN @ \ {key} |-> @[k]]]

(***************************************************************************)
(* fzLocal.bhius_button_press                                              *)
(***************************************************************************)
\* line 213 with a fifth button
buttons_withFifth ==
    (0 :> "top_left") @@ (1 :> "top_right") @@ (2 :> "bottom_left") @@
    (3 :> "bottom_right") @@ (4 :> "center")
buttons == (0 :> "top_left") @@ (1 :> "top_right") @@
           (2 :> "bottom_left") @@ (3 :> "bottom_right")

ButtonNames == {buttons[i] : i \in DOMAIN buttons}

\* line 212
AlreadyProcessed_never(ep, seq) == FALSE
AlreadyProcessed(ep, seq) == hasAlreadyProcessedMessage(ep, seq)

\* line 217: a hold notification, as opposed to a release
IsHold_flagOnly(longPress, duration) == longPress # 0
IsHold(longPress, duration) == longPress # 0 /\ duration > 0

\* line 218: a hold already announced
HoldPending_never(ep, name) == FALSE
HoldPending(ep, name) == globalStore_hasValue(store, ep, name)

\* lines 218, 219, 222: the entity the registry is keyed by is msg.endpoint
StoreEntity_shared(ep) == 1
StoreEntity(ep) == ep

\* line 223
ReleaseCommand(longPress) ==
    IF longPress # 0 THEN "longpress_release" ELSE "release"

\* line 227
ActionPatch(name, command) ==
    [action |-> "button_" \o name \o "_" \o command]

\* lines 224-225: the command is not awaited, and its rejection is caught
ConfirmAwaited_yes == TRUE
ConfirmAwaited == FALSE

ButtonMsg(ep, seq, buttonId, longPress, duration) ==
    [conv |-> "bhius_button_press", ep |-> ep, sequenceNumber |-> seq,
     buttonId |-> buttonId, longPress |-> longPress, duration |-> duration]

\* lines 196-231, the whole convert
bhius_button_press(ep, seq, buttonId, longPress, duration) ==
    /\ msg' = ButtonMsg(ep, seq, buttonId, longPress, duration)
    /\ UNCHANGED setVars
    /\ IF AlreadyProcessed(ep, seq)
       THEN /\ result' = Nothing
            /\ threw' = FALSE
            /\ logged' = {}
            /\ cleared' = Undefined
            /\ sent' = NoCommand
            /\ UNCHANGED <<transactionStore, store, inflight, longpressActions>>
       ELSE /\ transactionStore' = rememberTransaction(ep, seq)
            /\ IF buttonId \in DOMAIN buttons
               THEN LET name == buttons[buttonId]
                        ent == StoreEntity(ep)
                    IN IF IsHold(longPress, duration)
                       THEN /\ threw' = FALSE
                            /\ logged' = {}
                            /\ cleared' = Undefined
                            /\ sent' = NoCommand
                            /\ UNCHANGED inflight
                            /\ IF HoldPending(ent, name)
                               THEN /\ result' = Nothing
                                    /\ UNCHANGED <<store, longpressActions>>
                               ELSE /\ store' = globalStore_putValue(store, ent, name, duration)
                                    /\ result' = ActionPatch(name, "longpress")
                                    /\ longpressActions' =
                                         [longpressActions EXCEPT ![ep][name] = @ + 1]
                       ELSE /\ store' = globalStore_clearValue(store, ent, name)
                            /\ cleared' = IF globalStore_hasValue(store, ent, name) THEN "entry" ELSE "no_entry"
                            /\ longpressActions' = [longpressActions EXCEPT ![ep][name] = 0]
                            /\ logged' = {}
                            /\ sent' = [cmd |-> "confirmButtonPressed", ep |-> ep]
                            /\ IF ConfirmAwaited
                               THEN \* awaited: the decode ends with the command
                                    /\ UNCHANGED inflight
                                    /\ \E ok \in BOOLEAN :
                                         /\ threw' = ~ok
                                         /\ result' = IF ok
                                                      THEN ActionPatch(name, ReleaseCommand(longPress))
                                                      ELSE Nothing
                               ELSE /\ inflight' = [inflight EXCEPT ![ep] = @ + 1]
                                    /\ threw' = FALSE
                                    /\ result' = ActionPatch(name, ReleaseCommand(longPress))
               ELSE /\ result' = Nothing
                    /\ threw' = FALSE
                    /\ logged' = {"unknown_command_id"}
                    /\ cleared' = Undefined
                    /\ sent' = NoCommand
                    /\ UNCHANGED <<store, inflight, longpressActions>>

\* the confirmButtonPressed command of an earlier decode completes
ConfirmSettled(ep) ==
    /\ inflight[ep] > 0
    /\ inflight' = [inflight EXCEPT ![ep] = @ - 1]
    /\ msg' = [conv |-> "confirm_settled", ep |-> ep]
    /\ UNCHANGED <<transactionStore, store, longpressActions,
                   result, threw, logged, cleared, sent, setVars>>

\* it is rejected or times out: .catch((error) => {}) drops the error
ConfirmRejected(ep) ==
    /\ inflight[ep] > 0
    /\ inflight' = [inflight EXCEPT ![ep] = @ - 1]
    /\ msg' = [conv |-> "confirm_rejected", ep |-> ep]
    /\ UNCHANGED <<transactionStore, store, longpressActions,
                   result, threw, logged, cleared, sent, setVars>>

NoCall == [conv |-> "none", status |-> "idle", method |-> "none"]

Init ==
    /\ call = NoCall
    /\ wire = <<>>
    /\ ret = Nothing
    /\ rx = NoMsg
    /\ deviceMeta = {}
    /\ storedDeviceMode = {}
    /\ transactionStore = [ep \in Endpoints |-> {}]
    /\ store = [ep \in Endpoints |-> <<>>]
    /\ inflight = [ep \in Endpoints |-> 0]
    /\ longpressActions = [ep \in Endpoints |-> [n \in ButtonNames |-> 0]]
    /\ msg = NoMsg
    /\ result = Nothing
    /\ threw = FALSE
    /\ logged = {}
    /\ cleared = Undefined
    /\ sent = NoCommand

ButtonPress ==
    \* payload byte 4: two of the known buttons and an unknown id; byte 5: the
    \* long press flag; bytes 6-7: the duration
    \E ep \in Endpoints, seq \in SequenceNumbers, buttonId \in {0, 3, 4},
       longPress \in {0, 1}, duration \in {0, 1} :
        bhius_button_press(ep, seq, buttonId, longPress, duration)

ConfirmDone == \E ep \in Endpoints : ConfirmSettled(ep)
ConfirmFailed == \E ep \in Endpoints : ConfirmRejected(ep)

NextButton == ButtonPress \/ ConfirmDone \/ ConfirmFailed

SpecButton == Init /\ [][NextButton]_vars

(***************************************************************************)
(* The other decoders that issue a command: boschModernExtend.twinguard    *)
(* (cluster genAlarms) and boschModernExtend.ignoreDst (cluster genTime)   *)
(***************************************************************************)
\* lines 611-616
genAlarmsLookup == (16 :> "fire") @@ (17 :> "pre_alarm") @@
                   (20 :> "clear") @@ (22 :> "silenced")

\* line 618: the alarms the converter answers
AnswersAlarm(alarmcode) == alarmcode = 16 \/ alarmcode = 17

\* lines 617-622 of the convert, given whether the transport delivers its command
genAlarms_convert(ep, alarmcode, transportOk) ==
    LET patch == [siren_state |-> IF alarmcode \in DOMAIN genAlarmsLookup
                                  THEN genAlarmsLookup[alarmcode]
                                  ELSE Undefined]
        answer == [cmd |-> "commandResponse", ep |-> ep, cluster |-> "genAlarms",
                   command |-> "alarm", alarmcode |-> alarmcode, clusterid |-> 57344]
    IN IF AnswersAlarm(alarmcode)
       THEN \* awaited with no catch: a rejection rejects the convert
            [sent |-> answer,
             threw |-> ~transportOk,
             result |-> IF transportOk THEN patch ELSE Nothing]
       ELSE [sent |-> NoCommand, threw |-> FALSE, result |-> patch]

GenAlarms(ep, alarmcode, transportOk) ==
    LET r == genAlarms_convert(ep, alarmcode, transportOk)
    IN /\ msg' = [conv |-> "twinguard_genAlarms", ep |-> ep,
                  alarmcode |-> alarmcode, transportOk |-> transportOk]
       /\ result' = r.result
       /\ threw' = r.threw
       /\ sent' = r.sent
       /\ logged' = {}
       /\ cleared' = Undefined
       /\ UNCHANGED <<buttonVars, setVars>>

\* line 249: Array.prototype.includes(searchElement, fromIndex); the second
\* argument 'dstEnd' is a fromIndex that converts to 0 and the third is ignored
\* line 249 read as a test for all three attributes
DataIncludes_all(data, searchElement, fromIndex, ignored) ==
    {searchElement, fromIndex, ignored} \subseteq data
DataIncludes(data, searchElement, fromIndex, ignored) == searchElement \in data

\* lines 250-254
dstResponse ==
    [dstStart |-> [attribute |-> 3, status |-> "SUCCESS", value |-> 0],
     dstEnd |-> [attribute |-> 4, status |-> "SUCCESS", value |-> 0],
     dstShift |-> [attribute |-> 5, status |-> "SUCCESS", value |-> 0]]

\* lines 248-257
ignoreDst_convert(ep, data, tsn, transportOk) ==
    IF DataIncludes(data, "dstStart", "dstEnd", "dstShift")
    THEN [sent |-> [cmd |-> "readResponse", ep |-> ep, cluster |-> "genTime",
                    tsn |-> tsn, response |-> dstResponse],
          threw |-> ~transportOk,
          result |-> Nothing]
    ELSE [sent |-> NoCommand, threw |-> FALSE, result |-> Nothing]

IgnoreDst(ep, data, tsn, transportOk) ==
    LET r == ignoreDst_convert(ep, data, tsn, transportOk)
    IN /\ msg' = [conv |-> "ignoreDst", ep |-> ep, data |-> data,
                  zclTransactionSequenceNumber |-> tsn, transportOk |-> transportOk]
       /\ result' = r.result
       /\ threw' = r.threw
       /\ sent' = r.sent
       /\ logged' = {}
       /\ cleared' = Undefined
       /\ UNCHANGED <<buttonVars, setVars>>

AlarmCommand ==
    \* alarm codes a commandAlarm may carry: the four of the table, and two others
    \E ep \in Endpoints, alarmcode \in {0, 16, 17, 20, 22, 23}, transportOk \in BOOLEAN :
        GenAlarms(ep, alarmcode, transportOk)

TimeRead ==
    \* attributes a genTime read request may ask for
    \E ep \in Endpoints, data \in SUBSET {"time", "dstStart", "dstEnd", "dstShift"},
       tsn \in SequenceNumbers, transportOk \in BOOLEAN :
        IgnoreDst(ep, data, tsn, transportOk)

NextDecode == AlarmCommand \/ TimeRead

SpecDecode == Init /\ [][NextDecode]_vars

(***************************************************************************)
(* Encode converters: lookup tables                                        *)
(***************************************************************************)
\* devices/bosch.ts
sirenVolume == [low |-> 1, medium |-> 2, high |-> 3]
sirenLight == [only_light |-> 0, only_siren |-> 1, siren_and_light |-> 2]
outdoorSirenState == [ON |-> 7, OFF |-> 0]
sirenPowerSupply == [solar_panel |-> 1, ac_power_supply |-> 2, dc_power_supply |-> 3]
\* lib/bosch.ts, smokeAlarm and broadcastAlarm
smokeAlarm == [OFF |-> 0, ON |-> 15360]
burglarAlarm == [OFF |-> 1, ON |-> 46081]
broadcastSirenState ==
    [smoke_off |-> 0, smoke_on |-> 15360, burglar_off |-> 1, burglar_on |-> 46081]
\* lib/bosch.ts, twinguard
smokeSensitivity == [low |-> 3, medium |-> 2, high |-> 1]
sirenState == [stop |-> 0, pre_alarm |-> 1, fire |-> 2, burglar |-> 3]
stateOffOn == [OFF |-> 0, ON |-> 1]
\* Object.keys of the two tables the Twinguard decoders index: insertion order
smokeSensitivityKeys == <<"low", "medium", "high">>
stateOffOnKeys == <<"OFF", "ON">>
\* lib/bosch.ts, bmct
stateDeviceMode == [light |-> 4, shutter |-> 1, disabled |-> 0]
stateMotor == [stopped |-> 0, opening |-> 1, closing |-> 2]
stateSwitchType == [button |-> 1, button_key_change |-> 2,
                    rocker_switch |-> 3, rocker_switch_key_change |-> 4]

\* utils.getFromLookup(value, lookup): the entry of the table, an error when
\* the value is no key of it
InLookup(value, lookup) == value \in DOMAIN lookup
getFromLookup(value, lookup) == lookup[value]

(***************************************************************************)
(* Encode converters: what a convertSet does, as the operations it issues  *)
(* in order (each awaited before the next) and the value it returns when   *)
(* all of them succeed                                                     *)
(***************************************************************************)
Write(ep, cluster, attr, value, type, mfr) ==
    [op |-> "write", ep |-> ep, cluster |-> cluster, attr |-> attr,
     value |-> value, type |-> type, mfr |-> mfr]
Read(ep, cluster, attr, mfr) ==
    [op |-> "read", ep |-> ep, cluster |-> cluster, attr |-> attr,
     value |-> 0, type |-> 0, mfr |-> mfr]
Command(ep, cluster, command, data, mfr) ==
    [op |-> "command", ep |-> ep, cluster |-> cluster, attr |-> command,
     value |-> data, type |-> 0, mfr |-> mfr]
\* genAlarms 'alarm' sent with entity.commandResponse, clusterid 0xe000
AlarmResponse(ep, alarmcode) ==
    [op |-> "commandResponse", ep |-> ep, cluster |-> "genAlarms", attr |-> "alarm",
     value |-> alarmcode, type |-> 0, mfr |-> FALSE]
\* entity.zclCommandBroadcast(255, SLEEPY, ssIasZone, 'boschSmokeAlarmSiren', ...)
Broadcast(ep, cluster, command, data) ==
    [op |-> "zclCommandBroadcast", ep |-> ep, cluster |-> cluster, attr |-> command,
     value |-> data, type |-> 0, mfr |-> TRUE]
\* the convertSet of a generic converter (tz.on_off, tz.cover_state), awaited
Delegate(ep, converter) ==
    [op |-> converter, ep |-> ep, cluster |-> "", attr |-> "",
     value |-> 0, type |-> 0, mfr |-> FALSE]

\* property values are strings; "true" and "false" stand for the two booleans
Truthy(value) == value # "false"

\* the converter threw before it issued anything
Thrown == [threw |-> TRUE, ops |-> <<>>, state |-> Nothing]
Plan(ops, state) == [threw |-> FALSE, ops |-> ops, state |-> state]

\* devices/bosch.ts lines 114-118, with a lookup that falls back to index 0
SirenVolumeSet_defaulted(entity, value) ==
    Plan(<<Write(entity, "0x0502", "0xa002",
                 IF InLookup(value, sirenVolume) THEN getFromLookup(value, sirenVolume) ELSE 0,
                 32, TRUE)>>,
         [siren_volume |-> value])
SirenVolumeSet(entity, value) ==
    IF ~InLookup(value, sirenVolume) THEN Thrown
    ELSE Plan(<<Write(entity, "0x0502", "0xa002", getFromLookup(value, sirenVolume), 32, TRUE)>>,
              [siren_volume |-> value])

\* devices/bosch.ts lines 88-135
rbshoszbeu_convertSet(entity, key, value) ==
    CASE key = "light_delay" ->
            Plan(<<Write(entity, "0x0502", "0xa004", value, 33, TRUE)>>, [light_delay |-> value])
      [] key = "siren_delay" ->
            Plan(<<Write(entity, "0x0502", "0xa003", value, 33, TRUE)>>, [siren_delay |-> value])
      [] key = "light_duration" ->
            Plan(<<Write(entity, "0x0502", "0xa005", value, 32, TRUE)>>, [light_duration |-> value])
      [] key = "siren_duration" ->
            Plan(<<Write(entity, "0x0502", "0xa000", value, 32, TRUE)>>, [siren_duration |-> value])
      [] key = "siren_and_light" ->
            IF ~InLookup(value, sirenLight) THEN Thrown
            ELSE Plan(<<Write(entity, "0x0502", "0xa001", getFromLookup(value, sirenLight), 32, TRUE)>>,
                      [siren_and_light |-> value])
      [] key = "siren_volume" -> SirenVolumeSet(entity, value)
      [] key = "power_source" ->
            IF ~InLookup(value, sirenPowerSupply) THEN Thrown
            ELSE Plan(<<Write(entity, "0x0001", "0xa002", getFromLookup(value, sirenPowerSupply), 32, TRUE)>>,
                      [power_source |-> value])
      [] key = "alarm_state" ->
            IF ~InLookup(value, outdoorSirenState) THEN Thrown
            ELSE IF getFromLookup(value, outdoorSirenState) = 0
                 THEN Plan(<<Command(1, "0x0502", "0xf0", 0, TRUE)>>, [alarm_state |-> value])
                 ELSE Plan(<<Command(1, "0x0502", "0xf0", 7, TRUE)>>, [alarm_state |-> value])
      [] OTHER -> Plan(<<>>, Nothing)

\* lib/bosch.ts lines 403-414
smokeAlarm_convertSet(entity, key, value) ==
    CASE key = "alarm_smoke" ->
            IF ~InLookup(value, smokeAlarm) THEN Thrown
            ELSE Plan(<<Command(entity, "ssIasZone", "boschSmokeAlarmSiren",
                                getFromLookup(value, smokeAlarm), TRUE)>>,
                      [alarm_smoke |-> value])
      [] key = "alarm_burglar" ->
            IF ~InLookup(value, burglarAlarm) THEN Thrown
            ELSE Plan(<<Command(entity, "ssIasZone", "boschSmokeAlarmSiren",
                                getFromLookup(value, burglarAlarm), TRUE)>>,
                      [alarm_burglar |-> value])
      [] OTHER -> Plan(<<>>, Nothing)

\* lib/bosch.ts lines 447-458
broadcastAlarm_convertSet(entity, key, value) ==
    CASE key = "broadcast_alarm" ->
            IF ~InLookup(value, broadcastSirenState) THEN Thrown
            ELSE Plan(<<Broadcast(entity, "ssIasZone", "boschSmokeAlarmSiren",
                                  getFromLookup(value, broadcastSirenState))>>,
                      Nothing)
      [] OTHER -> Plan(<<>>, Nothing)

\* lib/bosch.ts lines 654-656 with the clear sent before the silenced
AlarmStop_clearFirst(entity) ==
    <<AlarmResponse(entity, 20), AlarmResponse(entity, 22),
      Command(12, "twinguardAlarm", "burglarAlarm", 0, FALSE)>>
\* lib/bosch.ts lines 654-656: the three commands of alarm 'stop', each awaited
AlarmStop(entity) ==
    <<AlarmResponse(entity, 22), AlarmResponse(entity, 20),
      Command(12, "twinguardAlarm", "burglarAlarm", 0, FALSE)>>

\* lib/bosch.ts lines 627-667
twinguard_convertSet(entity, key, value) ==
    CASE key = "sensitivity" ->
            IF ~InLookup(value, smokeSensitivity) THEN Thrown
            ELSE Plan(<<Write(entity, "twinguardSmokeDetector", "sensitivity",
                              getFromLookup(value, smokeSensitivity), 0, FALSE)>>,
                      [sensitivity |-> value])
      [] key = "pre_alarm" ->
            IF ~InLookup(value, stateOffOn) THEN Thrown
            ELSE Plan(<<Write(entity, "twinguardOptions", "pre_alarm",
                              getFromLookup(value, stateOffOn), 0, FALSE)>>,
                      [pre_alarm |-> value])
      [] key = "heartbeat" ->
            IF ~InLookup(value, stateOffOn) THEN Thrown
            ELSE Plan(<<Write(12, "twinguardSetup", "heartbeat",
                              getFromLookup(value, stateOffOn), 0, FALSE)>>,
                      [heartbeat |-> value])
      [] key = "self_test" ->
            IF Truthy(value)
            THEN Plan(<<Command(entity, "twinguardSmokeDetector", "initiateTestMode", 0, FALSE)>>,
                      Nothing)
            ELSE Plan(<<>>, Nothing)
      [] key = "alarm" ->
            IF ~InLookup(value, sirenState) THEN Thrown
            ELSE LET index == getFromLookup(value, sirenState)
                 IN CASE index = 0 ->
                            Plan(AlarmStop(entity), Nothing)
                      [] index = 1 ->
                            Plan(<<AlarmResponse(entity, 17)>>, [siren_state |-> "pre_alarm"])
                      [] index = 2 ->
                            Plan(<<AlarmResponse(entity, 16)>>, [siren_state |-> "fire"])
                      [] index = 3 ->
                            Plan(<<Command(12, "twinguardAlarm", "burglarAlarm", 1, FALSE)>>,
                                 Nothing)
                      [] OTHER -> Plan(<<>>, Nothing)
      [] OTHER -> Plan(<<>>, Nothing)

\* lib/bosch.ts lines 777-782 with the read issued before the write
DeviceModeSet_readFirst(entity, value) ==
    IF ~InLookup(value, stateDeviceMode) THEN Thrown
    ELSE Plan(<<Read(entity, "boschSpecific", "deviceMode", FALSE),
                Write(entity, "boschSpecific", "deviceMode",
                      getFromLookup(value, stateDeviceMode), 0, FALSE)>>,
              [device_mode |-> value])
\* lib/bosch.ts lines 777-782
DeviceModeSet(entity, value) ==
    IF ~InLookup(value, stateDeviceMode) THEN Thrown
    ELSE Plan(<<Write(entity, "boschSpecific", "deviceMode",
                      getFromLookup(value, stateDeviceMode), 0, FALSE),
                Read(entity, "boschSpecific", "deviceMode", FALSE)>>,
              [device_mode |-> value])

\* lib/bosch.ts lines 764-793
bmct_convertSet(entity, key, value) ==
    CASE key = "state" ->
            IF entity = 1
            THEN Plan(<<Delegate(entity, "tz.cover_state.convertSet")>>, Nothing)
            ELSE Plan(<<Delegate(entity, "tz.on_off.convertSet")>>, Nothing)
      [] key = "on_time" \/ key = "on_wait_time" ->
            IF entity # 1
            THEN Plan(<<Delegate(entity, "tz.on_off.convertSet")>>, Nothing)
            ELSE Plan(<<>>, Nothing)
      [] key = "device_mode" -> DeviceModeSet(entity, value)
      [] key = "switch_type" ->
            IF ~InLookup(value, stateSwitchType) THEN Thrown
            ELSE Plan(<<Write(entity, "boschSpecific", "switchType",
                              getFromLookup(value, stateSwitchType), 0, FALSE)>>,
                      [switch_type |-> value])
      [] key = "child_lock" ->
            IF ~InLookup(value, stateOffOn) THEN Thrown
            ELSE Plan(<<Write(entity, "boschSpecific", "childLock",
                              getFromLookup(value, stateOffOn), 0, FALSE)>>,
                      [child_lock |-> value])
      [] OTHER -> Plan(<<>>, Nothing)

\* devices/bosch.ts lines 50-59
buttonMap ==
    [config_led_top_left_press |-> 16, config_led_top_right_press |-> 17,
     config_led_bottom_left_press |-> 18, config_led_bottom_right_press |-> 19,
     config_led_top_left_longpress |-> 32, config_led_top_right_longpress |-> 33,
     config_led_bottom_left_longpress |-> 34, config_led_bottom_right_longpress |-> 35]

\* a hex string is the sequence of its characters
HexDigits ==
    ("0" :> 0) @@ ("1" :> 1) @@ ("2" :> 2) @@ ("3" :> 3) @@ ("4" :> 4) @@ ("5" :> 5)
    @@ ("6" :> 6) @@ ("7" :> 7) @@ ("8" :> 8) @@ ("9" :> 9) @@ ("a" :> 10) @@ ("b" :> 11)
    @@ ("c" :> 12) @@ ("d" :> 13) @@ ("e" :> 14) @@ ("f" :> 15)
ValidPair(hex, k) ==
    2 * k <= Len(hex) /\ hex[2 * k - 1] \in DOMAIN HexDigits /\ hex[2 * k] \in DOMAIN HexDigits
\* Buffer.from(value, 'hex'): one byte for each pair of hex digits, up to the
\* first pair that is not one; a single trailing digit is dropped
BufferFromHex(hex) ==
    LET n == CHOOSE m \in 0..(Len(hex) \div 2) :
                 /\ \A k \in 1..m : ValidPair(hex, k)
                 /\ (m = Len(hex) \div 2 \/ ~ValidPair(hex, m + 1))
    IN [k \in 1..n |-> 16 * HexDigits[hex[2 * k - 1]] + HexDigits[hex[2 * k]]]

\* devices/bosch.ts line 178 with the length bound only from above
BufferAccepted_atMost(buffer) == Len(buffer) <= 9
BufferAccepted(buffer) == Len(buffer) = 9

\* devices/bosch.ts lines 172-187
bhius_config_convertSet(entity, key, value) ==
    IF key \notin DOMAIN buttonMap THEN Plan(<<>>, Nothing)
    ELSE LET buffer == BufferFromHex(value)
         IN IF ~BufferAccepted(buffer) THEN Thrown
            ELSE Plan(<<Write(entity, "boschSpecific", buttonMap[key], buffer, 65, TRUE)>>,
                      (key :> value))

\* lib/bosch.ts lines 150-156
adaptationStatus ==
    [none |-> 0, ready_to_calibrate |-> 1, calibration_in_progress |-> 2,
     error |-> 3, success |-> 4]

\* lib/bosch.ts lines 185-188 with the calibration allowed in every known status
CalibrationAllowed_always(adaptStatus) == TRUE
CalibrationAllowed(adaptStatus) ==
    adaptStatus = adaptationStatus["ready_to_calibrate"] \/ adaptStatus = adaptationStatus["error"]

\* lib/bosch.ts lines 180-193; state is meta.state, value == true holds for "true"
valveAdaptProcess_convertSet(entity, key, value, state) ==
    IF value = "true"
    THEN IF "valve_adapt_status" \notin DOMAIN state THEN Thrown
         ELSE IF ~InLookup(state["valve_adapt_status"], adaptationStatus) THEN Thrown
         ELSE IF CalibrationAllowed(getFromLookup(state["valve_adapt_status"], adaptationStatus))
              THEN Plan(<<Command(entity, "hvacThermostat", "calibrateValve", 0, TRUE)>>,
                        [valve_adapt_process |-> value])
              ELSE Thrown
    ELSE Plan(<<>>, [valve_adapt_process |-> value])

\* utils.toNumber of a number, and utils.numberWithinRange
toNumber(value) == value
numberWithinRange(number, min, max) ==
    IF number > max THEN max ELSE IF number < min THEN min ELSE number

\* lib/bosch.ts lines 221-228 without line 224: the demand written as requested
heatingDemand_convertSet_unclamped(entity, key, value) ==
    IF key = "pi_heating_demand"
    THEN Plan(<<Write(entity, "hvacThermostat", "heatingDemand", toNumber(value), 0, TRUE)>>,
              [pi_heating_demand |-> toNumber(value)])
    ELSE Plan(<<>>, Nothing)
\* lib/bosch.ts lines 221-228
heatingDemand_convertSet(entity, key, value) ==
    IF key = "pi_heating_demand"
    THEN LET demand == numberWithinRange(toNumber(value), 0, 100)
         IN Plan(<<Write(entity, "hvacThermostat", "heatingDemand", demand, 0, TRUE)>>,
                 [pi_heating_demand |-> demand])
    ELSE Plan(<<>>, Nothing)

calibrationAttribute ==
    [calibration_opening_time |-> "calibrationOpeningTime",
     calibration_closing_time |-> "calibrationClosingTime",
     calibration_button_hold_time |-> "calibrationButtonHoldTime",
     calibration_motor_start_delay |-> "calibrationMotorStartDelay"]

\* lib/bosch.ts lines 823-848: the second converter of the bmct
bmctCalibration_convertSet(entity, key, value) ==
    \* number * 10 of a calibration time given in seconds and tenths
    LET TimesTen(number) == number.seconds * 10 + number.tenths
    IN IF key \in DOMAIN calibrationAttribute
       THEN Plan(<<Write(entity, "boschSpecific", calibrationAttribute[key],
                         TimesTen(toNumber(value)), 0, FALSE)>>,
                 (key :> toNumber(value)))
       ELSE Plan(<<>>, Nothing)

convertSet(conv, entity, key, value) ==
    CASE conv = "rbshoszbeu" -> rbshoszbeu_convertSet(entity, key, value)
      [] conv = "bhius_config" -> bhius_config_convertSet(entity, key, value)
      [] conv = "heatingDemand" -> heatingDemand_convertSet(entity, key, value)
      [] conv = "bmctCalibration" -> bmctCalibration_convertSet(entity, key, value)
      [] conv = "smokeAlarm" -> smokeAlarm_convertSet(entity, key, value)
      [] conv = "broadcastAlarm" -> broadcastAlarm_convertSet(entity, key, value)
      [] conv = "twinguard" -> twinguard_convertSet(entity, key, value)
      [] conv = "bmct" -> bmct_convertSet(entity, key, value)

(***************************************************************************)
(* The properties a set is tried with                                      *)
(***************************************************************************)
MaxCode == 4
Codes == 0..MaxCode
SetEntities == {1, 2}
Converters == {"rbshoszbeu", "smokeAlarm", "broadcastAlarm", "twinguard", "bmct"}

\* the keys each converter registers, and one it does not
ConverterKeys(conv) ==
    CASE conv = "rbshoszbeu" ->
            {"light_delay", "siren_delay", "light_duration", "siren_duration",
             "siren_and_light", "siren_volume", "power_source", "alarm_state"}
      [] conv = "smokeAlarm" -> {"alarm_smoke", "alarm_burglar"}
      [] conv = "broadcastAlarm" -> {"broadcast_alarm"}
      [] conv = "twinguard" -> {"sensitivity", "pre_alarm", "self_test", "alarm", "heartbeat"}
      [] conv = "bmct" ->
            {"device_mode", "switch_type", "child_lock", "state", "on_time", "off_wait_time"}
      [] conv = "bmctCalibration" -> DOMAIN calibrationAttribute
      [] conv = "bhius_config" -> DOMAIN buttonMap
      [] conv = "valveAdaptProcess" -> {"valve_adapt_process"}
      [] conv = "heatingDemand" -> {"pi_heating_demand"}
      [] conv = "runningState" -> {"running_state"}
SetKeys(conv) == ConverterKeys(conv) \cup {"unknown_key"}

\* the converters with a convertSet, and those with a convertGet
SetConverters ==
    Converters \cup {"bmctCalibration", "bhius_config", "valveAdaptProcess", "heatingDemand"}
GetConverters ==
    {"rbshoszbeu", "smokeAlarm", "twinguard", "bmct", "bmctCalibration", "bhius_config",
     "valveAdaptProcess", "heatingDemand", "runningState"}

\* the example hex string of the source (9 bytes)
LedExample ==
    <<"3", "0", "f", "f", "0", "0", "0", "0", "0", "1", "0", "2", "0", "1", "0", "0", "0", "1">>
\* meta.state as the thermostat converters read it: the known valve_adapt_status
MetaStates(conv) ==
    IF conv = "valveAdaptProcess"
    THEN {[valve_adapt_status |-> status] : status \in DOMAIN adaptationStatus} \cup {<<>>}
    ELSE {<<>>}

\* the table a convertSet passes to utils.getFromLookup for the key
EnumKeys(conv) ==
    CASE conv = "rbshoszbeu" -> {"siren_and_light", "siren_volume", "power_source", "alarm_state"}
      [] conv = "smokeAlarm" -> {"alarm_smoke", "alarm_burglar"}
      [] conv = "broadcastAlarm" -> {"broadcast_alarm"}
      [] conv = "twinguard" -> {"sensitivity", "pre_alarm", "heartbeat", "alarm"}
      [] conv = "bmct" -> {"device_mode", "switch_type", "child_lock"}
      [] OTHER -> {}
EnumTable(conv, key) ==
    CASE key = "siren_and_light" -> sirenLight
      [] key = "siren_volume" -> sirenVolume
      [] key = "power_source" -> sirenPowerSupply
      [] key = "alarm_state" -> outdoorSirenState
      [] key = "alarm_smoke" -> smokeAlarm
      [] key = "alarm_burglar" -> burglarAlarm
      [] key = "broadcast_alarm" -> broadcastSirenState
      [] key = "sensitivity" -> smokeSensitivity
      [] key = "pre_alarm" -> stateOffOn
      [] key = "heartbeat" -> stateOffOn
      [] key = "alarm" -> sirenState
      [] key = "device_mode" -> stateDeviceMode
      [] key = "switch_type" -> stateSwitchType
      [] key = "child_lock" -> stateOffOn
SetValues(conv, key) ==
    CASE key \in EnumKeys(conv) -> DOMAIN EnumTable(conv, key) \cup {"bogus", "medium", "ON"}
      [] key \in {"light_delay", "siren_delay", "light_duration", "siren_duration",
                  "on_time", "off_wait_time"} -> {0, 30}
      [] key = "self_test" -> {"true", "false"}
      [] key = "state" -> {"ON", "OFF"}
      [] key \in DOMAIN buttonMap /\ conv = "bhius_config" ->
            \* hex strings: the example, one byte less, one byte more, one digit
            \* more, and one that starts with no hex digit
            {LedExample, SubSeq(LedExample, 1, 16), LedExample \o <<"0", "0">>,
             LedExample \o <<"a">>, <<"z", "z">> \o LedExample}
      [] key \in DOMAIN calibrationAttribute /\ conv = "bmctCalibration" ->
            \* calibration times, in seconds and tenths
            {[seconds |-> 1, tenths |-> 5], [seconds |-> 90, tenths |-> 0]}
      [] key = "pi_heating_demand" -> {0 - 5, 0, 50, 100, 150}
      [] key = "valve_adapt_process" -> {"true", "false"}
      [] OTHER -> {"bogus"}

(***************************************************************************)
(* Running a converter: every operation is awaited, so the next one is     *)
(* issued only when the one before has succeeded, and the first one that   *)
(* fails rejects the whole call                                            *)
(***************************************************************************)
\* devices/bosch.ts lines 136-162
rbshoszbeu_convertGet(entity, key) ==
    CASE key = "light_delay" -> Plan(<<Read(entity, "0x0502", "0xa004", TRUE)>>, Nothing)
      [] key = "siren_delay" -> Plan(<<Read(entity, "0x0502", "0xa003", TRUE)>>, Nothing)
      [] key = "light_duration" -> Plan(<<Read(entity, "0x0502", "0xa005", TRUE)>>, Nothing)
      [] key = "siren_duration" -> Plan(<<Read(entity, "0x0502", "0xa000", TRUE)>>, Nothing)
      [] key = "siren_and_light" -> Plan(<<Read(entity, "0x0502", "0xa001", TRUE)>>, Nothing)
      [] key = "siren_volume" -> Plan(<<Read(entity, "0x0502", "0xa002", TRUE)>>, Nothing)
      [] key = "alarm_state" -> Plan(<<Read(entity, "0x0502", "0xf0", TRUE)>>, Nothing)
      [] OTHER -> Thrown

\* devices/bosch.ts lines 166-171
bhius_config_convertGet(entity, key) ==
    IF key \notin DOMAIN buttonMap THEN Thrown
    ELSE Plan(<<Read(entity, "boschSpecific", buttonMap[key], TRUE)>>, Nothing)

\* lib/bosch.ts lines 415-425
smokeAlarm_convertGet(entity, key) ==
    IF key \in {"alarm_smoke", "alarm_burglar", "zone_status"}
    THEN Plan(<<Read(entity, "ssIasZone", "zoneStatus", FALSE)>>, Nothing)
    ELSE Thrown

\* lib/bosch.ts lines 668-686
twinguard_convertGet(entity, key) ==
    CASE key = "sensitivity" ->
            Plan(<<Read(entity, "twinguardSmokeDetector", "sensitivity", FALSE)>>, Nothing)
      [] key = "pre_alarm" -> Plan(<<Read(entity, "twinguardOptions", "pre_alarm", FALSE)>>, Nothing)
      [] key = "heartbeat" -> Plan(<<Read(12, "twinguardSetup", "heartbeat", FALSE)>>, Nothing)
      [] key = "alarm" \/ key = "self_test" ->
            Plan(<<Read(12, "twinguardAlarm", "alarm_status", FALSE)>>, Nothing)
      [] OTHER -> Thrown

\* lib/bosch.ts lines 794-815
bmct_convertGet(entity, key) ==
    CASE key \in {"state", "on_time", "off_wait_time"} ->
            IF entity # 1 THEN Plan(<<Read(entity, "genOnOff", "onOff", FALSE)>>, Nothing)
            ELSE Plan(<<>>, Nothing)
      [] key = "device_mode" -> Plan(<<Read(entity, "boschSpecific", "deviceMode", FALSE)>>, Nothing)
      [] key = "switch_type" -> Plan(<<Read(entity, "boschSpecific", "switchType", FALSE)>>, Nothing)
      [] key = "child_lock" -> Plan(<<Read(entity, "boschSpecific", "childLock", FALSE)>>, Nothing)
      [] OTHER -> Thrown

\* lib/bosch.ts lines 849-866
bmctCalibration_convertGet(entity, key) ==
    IF key \in DOMAIN calibrationAttribute
    THEN Plan(<<Read(entity, "boschSpecific", calibrationAttribute[key], FALSE)>>, Nothing)
    ELSE Thrown

\* lib/bosch.ts lines 195-197: whatever the key
valveAdaptProcess_convertGet(entity, key) ==
    Plan(<<Read(entity, "hvacThermostat", "valveAdaptStatus", TRUE)>>, Nothing)

\* lib/bosch.ts lines 230-232 and 235-237: whatever the key
heatingDemand_convertGet(entity, key) ==
    Plan(<<Read(entity, "hvacThermostat", "heatingDemand", TRUE)>>, Nothing)

convertGet(conv, entity, key) ==
    CASE conv = "rbshoszbeu" -> rbshoszbeu_convertGet(entity, key)
      [] conv = "bhius_config" -> bhius_config_convertGet(entity, key)
      [] conv = "smokeAlarm" -> smokeAlarm_convertGet(entity, key)
      [] conv = "twinguard" -> twinguard_convertGet(entity, key)
      [] conv = "bmct" -> bmct_convertGet(entity, key)
      [] conv = "bmctCalibration" -> bmctCalibration_convertGet(entity, key)
      [] conv = "valveAdaptProcess" -> valveAdaptProcess_convertGet(entity, key)
      [] conv = "heatingDemand" -> heatingDemand_convertGet(entity, key)
      [] conv = "runningState" -> heatingDemand_convertGet(entity, key)

\* the converter method the framework invokes for a key; state is meta.state
Invoke(method, conv, entity, key, value, state) ==
    IF method = "get" THEN convertGet(conv, entity, key)
    ELSE IF conv = "valveAdaptProcess"
         THEN valveAdaptProcess_convertSet(entity, key, value, state)
         ELSE convertSet(conv, entity, key, value)

CallPlan == Invoke(call.method, call.conv, call.entity, call.key, call.value, call.state)

StartCall(method, conv, entity, key, value, state) ==
    LET plan == Invoke(method, conv, entity, key, value, state)
    IN /\ call.status # "running"
       /\ call' = [method |-> method, conv |-> conv, entity |-> entity, key |-> key,
                   value |-> value, state |-> state,
                   status |-> IF plan.threw THEN "threw"
                              ELSE IF plan.ops = <<>> THEN "returned" ELSE "running"]
       /\ wire' = <<>>
       /\ ret' = IF ~plan.threw /\ plan.ops = <<>> THEN plan.state ELSE Nothing
       /\ UNCHANGED <<rx, deviceMeta, storedDeviceMode>>
       /\ UNCHANGED <<buttonVars, decodeVars>>

StartSet(conv, entity, key, value) == StartCall("set", conv, entity, key, value, <<>>)

OperationSucceeds ==
    /\ call.status = "running"
    /\ LET plan == CallPlan
           op == plan.ops[Len(wire) + 1]
       IN /\ wire' = Append(wire, op)
          /\ IF Len(wire) + 1 = Len(plan.ops)
             THEN /\ call' = [call EXCEPT !.status = "returned"]
                  /\ ret' = plan.state
             ELSE UNCHANGED <<call, ret>>
    /\ UNCHANGED <<rx, deviceMeta, storedDeviceMode>>
    /\ UNCHANGED <<buttonVars, decodeVars>>

OperationFails ==
    /\ call.status = "running"
    /\ wire' = Append(wire, CallPlan.ops[Len(wire) + 1])
    /\ call' = [call EXCEPT !.status = "rejected"]
    /\ ret' = Nothing
    /\ UNCHANGED <<rx, deviceMeta, storedDeviceMode>>
    /\ UNCHANGED <<buttonVars, decodeVars>>

(***************************************************************************)
(* Decode converters for attribute reports and read responses              *)
(***************************************************************************)
\* Object.keys(table)[index]: undefined outside the array
ObjectKeysAt(keys, index) ==
    IF index + 1 \in DOMAIN keys THEN keys[index + 1] ELSE Undefined

\* Object.keys(table).find((key) => table[key] === code)
ObjectKeysFind(keys, table, code) ==
    LET hits == {i \in DOMAIN keys : table[keys[i]] = code}
    IN IF hits = {} THEN Undefined
       ELSE keys[CHOOSE i \in hits : \A j \in hits : i <= j]

stateDeviceModeKeys == <<"light", "shutter", "disabled">>
stateMotorKeys == <<"stopped", "opening", "closing">>
stateSwitchTypeKeys ==
    <<"button", "button_key_change", "rocker_switch", "rocker_switch_key_change">>

\* lib/bosch.ts lines 510-519, 570-589: the three Twinguard option decoders
twinguard_convert(cluster, data) ==
    CASE cluster = "twinguardSmokeDetector" /\ "sensitivity" \in DOMAIN data ->
            [sensitivity |-> ObjectKeysAt(smokeSensitivityKeys, data["sensitivity"])]
      [] cluster = "twinguardOptions" /\ "pre_alarm" \in DOMAIN data ->
            [pre_alarm |-> ObjectKeysAt(stateOffOnKeys, data["pre_alarm"])]
      [] cluster = "twinguardSetup" /\ "heartbeat" \in DOMAIN data ->
            [heartbeat |-> ObjectKeysAt(stateOffOnKeys, data["heartbeat"])]
      [] OTHER -> <<>>

\* devices/bosch.ts line 887: deviceEndpoints({endpoints: {left: 2, right: 3}})
bmctEndpointNames == (2 :> "left") @@ (3 :> "right")

\* utils.postfixWithEndpointName(value, msg, model, meta) on a multi-endpoint device
postfixWithEndpointName(value, ep) ==
    IF ep \in DOMAIN bmctEndpointNames THEN value \o "_" \o bmctEndpointNames[ep] ELSE value

\* raw / 10 of the calibration times, as whole seconds and tenths
DivideByTen(raw) == [seconds |-> raw \div 10, tenths |-> raw % 10]

\* lib/bosch.ts line 723, decoded by position in Object.keys instead of by value
DeviceModeDecode_byIndex(code) == ObjectKeysAt(stateDeviceModeKeys, code)
DeviceModeDecode(code) == ObjectKeysFind(stateDeviceModeKeys, stateDeviceMode, code)

Field(data, attr, property, value) ==
    IF attr \in DOMAIN data THEN (property :> value) ELSE <<>>

\* lib/bosch.ts lines 716-754: the patch of the boschSpecific decoder
bmct_convert(ep, data) ==
    LET code(attr) == IF attr \in DOMAIN data THEN data[attr] ELSE 0
    IN Field(data, "deviceMode", "device_mode", DeviceModeDecode(code("deviceMode")))
       @@ Field(data, "switchType", "switch_type",
                ObjectKeysFind(stateSwitchTypeKeys, stateSwitchType, code("switchType")))
       @@ Field(data, "calibrationOpeningTime", "calibration_opening_time",
                DivideByTen(code("calibrationOpeningTime")))
       @@ Field(data, "calibrationClosingTime", "calibration_closing_time",
                DivideByTen(code("calibrationClosingTime")))
       @@ Field(data, "calibrationButtonHoldTime", "calibration_button_hold_time",
                DivideByTen(code("calibrationButtonHoldTime")))
       @@ Field(data, "calibrationMotorStartDelay", "calibration_motor_start_delay",
                DivideByTen(code("calibrationMotorStartDelay")))
       @@ Field(data, "childLock", postfixWithEndpointName("child_lock", ep),
                IF code("childLock") = 1 THEN "ON" ELSE "OFF")
       @@ Field(data, "motorState", "motor_state",
                ObjectKeysFind(stateMotorKeys, stateMotor, code("motorState")))

\* lib/bosch.ts line 725 without the comparison: every deviceMode is a change
bmct_modeChanged_always(data, remembered) == "deviceMode" \in DOMAIN data
\* lib/bosch.ts lines 724-728: the remembered mode and deviceExposesChanged()
bmct_modeChanged(data, remembered) ==
    "deviceMode" \in DOMAIN data /\ remembered # {data["deviceMode"]}

\* devices/bosch.ts line 254: the decode converters of the BSIR-EZ
sirenFromZigbee == <<"fz.ias_alarm_only_alarm_1", "fz.battery", "fz.power_source">>
\* the cluster each of them is registered on
fzCluster(converter) ==
    CASE converter = "fz.ias_alarm_only_alarm_1" -> "ssIasZone"
      [] converter = "fz.battery" -> "genPowerCfg"
      [] converter = "fz.power_source" -> "genBasic"
\* the ZCL name of a cluster the siren code addresses by number
ClusterName(cluster) ==
    CASE cluster = "0x0502" -> "ssIasWd"
      [] cluster = "0x0001" -> "genPowerCfg"
      [] OTHER -> cluster
\* the converters of a device a message is dispatched to: those of its cluster
Matching(fromZigbee, cluster) ==
    {i \in DOMAIN fromZigbee : fzCluster(fromZigbee[i]) = ClusterName(cluster)}


\* a read response of the siren's manufacturer attributes (configure, line 260, and
\* convertGet read them): no converter of the device is registered on the cluster
SirenReadResponse ==
    \E attr \in {"0xa001", "0xa002"}, code \in Codes :
       /\ call.status # "running"
       /\ rx' = [device |-> "BSIR-EZ", ep |-> 1, cluster |-> "0x0502", type |-> "readResponse",
                 data |-> (attr :> code),
                 matched |-> Matching(sirenFromZigbee, "0x0502"),
                 patch |-> IF Matching(sirenFromZigbee, "0x0502") = {} THEN Nothing ELSE <<>>,
                 exposesChanged |-> FALSE]
       /\ UNCHANGED <<call, wire, ret, deviceMeta, storedDeviceMode>>
       /\ UNCHANGED <<buttonVars, decodeVars>>

TwinguardReport ==
    \* a cluster of the options and the attribute it reports
    \E source \in {<<"twinguardSmokeDetector", "sensitivity">>,
                   <<"twinguardOptions", "pre_alarm">>,
                   <<"twinguardSetup", "heartbeat">>},
       code \in Codes :
       LET cluster == source[1]
           data == (source[2] :> code)
       IN /\ rx' = [device |-> "twinguard", ep |-> 1, cluster |-> cluster,
                    type |-> "attributeReport", data |-> data,
                    matched |-> {cluster},
                    patch |-> twinguard_convert(cluster, data),
                    exposesChanged |-> FALSE]
          /\ UNCHANGED <<call, wire, ret, deviceMeta, storedDeviceMode>>
          /\ UNCHANGED <<buttonVars, decodeVars>>

\* devices/bosch.ts lines 915-934: endpoint 1 carries them all, 2 and 3 the child lock
EndpointAttributes(ep) ==
    IF ep = 1 THEN {"deviceMode", "switchType", "childLock", "motorState"} ELSE {"childLock"}

\* the attribute values an endpoint stores from the reports it receives, read
\* back by getClusterAttributeValue: here the deviceMode of endpoint 1
saveClusterAttributeKeyValue(ep, data, stored) ==
    IF ep = 1 /\ "deviceMode" \in DOMAIN data THEN {data["deviceMode"]} ELSE stored

BmctReport ==
    \E ep \in {1} \cup DOMAIN bmctEndpointNames, code \in Codes :
     \E attr \in EndpointAttributes(ep) :
       LET data == (attr :> code)
       IN /\ rx' = [device |-> "bmct", ep |-> ep, cluster |-> "boschSpecific",
                    type |-> "attributeReport", data |-> data,
                    matched |-> {"boschSpecific"},
                    patch |-> bmct_convert(ep, data),
                    exposesChanged |-> bmct_modeChanged(data, deviceMeta)]
          /\ deviceMeta' = IF bmct_modeChanged(data, deviceMeta)
                           THEN {data["deviceMode"]} ELSE deviceMeta
          /\ storedDeviceMode' = saveClusterAttributeKeyValue(ep, data, storedDeviceMode)
          /\ UNCHANGED <<call, wire, ret>>
          /\ UNCHANGED <<buttonVars, decodeVars>>

(***************************************************************************)
(* SpecEnumDecode: the decoders that turn a wire code into a symbol, fed   *)
(* with codes inside and outside their tables                              *)
(***************************************************************************)
\* lib/bosch.ts lines 591-598: the lookup of the twinguardAlarm decoder
\* (0x00200020, 0x01200020, 0x02200020, 0x00200082, 0x00200081, 0x00200040)
alarmStatusLookup ==
    (2097184 :> "clear") @@ (18874400 :> "self_test") @@ (35651616 :> "burglar") @@
    (2097282 :> "pre_alarm") @@ (2097281 :> "fire") @@ (2097216 :> "silenced")

\* (value & 1 << bit) > 0
BitSet(value, bit) == (value \div (2 ^ bit)) % 2 = 1

\* lookup[code] of an object literal: undefined for a code that is no key
LookupCode(lookup, code) == IF code \in DOMAIN lookup THEN lookup[code] ELSE Undefined

\* lib/bosch.ts lines 599-604 abandoning the message when the code is no key of the lookup
twinguardAlarm_convert_allOrNothing(data) ==
    IF "alarm_status" \in DOMAIN data /\ data["alarm_status"] \in DOMAIN alarmStatusLookup
    THEN [self_test |-> BitSet(data["alarm_status"], 24),
          smoke |-> BitSet(data["alarm_status"], 7),
          siren_state |-> alarmStatusLookup[data["alarm_status"]]]
    ELSE <<>>
\* lib/bosch.ts lines 586-606: the twinguardAlarm decoder
twinguardAlarm_convert(data) ==
    IF "alarm_status" \in DOMAIN data
    THEN [self_test |-> BitSet(data["alarm_status"], 24),
          smoke |-> BitSet(data["alarm_status"], 7),
          siren_state |-> LookupCode(alarmStatusLookup, data["alarm_status"])]
    ELSE <<>>

\* lib/bosch.ts line 341: the lookup of the contact's action
contactActionLookup == (0 :> "none") @@ (1 :> "single") @@ (2 :> "long")

\* lib/bosch.ts lines 335-358: the ssIasZone decoder of the door/window contact
doorWindowContact_convert(type, data) ==
    IF "zoneStatus" \in DOMAIN data \/ "zonestatus" \in DOMAIN data
    THEN LET zoneStatus == IF type = "commandStatusChangeNotification"
                           THEN data["zonestatus"] ELSE data["zoneStatus"]
             action == LookupCode(contactActionLookup, (zoneStatus \div (2 ^ 11)) % 4)
             flags == [contact |-> ~BitSet(zoneStatus, 0),
                       vibration |-> BitSet(zoneStatus, 1),
                       tamper |-> BitSet(zoneStatus, 2),
                       battery_low |-> BitSet(zoneStatus, 3),
                       supervision_reports |-> BitSet(zoneStatus, 4),
                       restore_reports |-> BitSet(zoneStatus, 5),
                       trouble |-> BitSet(zoneStatus, 6),
                       ac_status |-> BitSet(zoneStatus, 7),
                       test |-> BitSet(zoneStatus, 8),
                       battery_defect |-> BitSet(zoneStatus, 9)]
         IN \* line 355: delete result.action when it is 'none'
            IF action = "none" THEN flags ELSE flags @@ [action |-> action]
    ELSE Nothing

\* alarm_status values: the six of the lookup, and two that are no key of it
TwinguardAlarmReport ==
    \E code \in DOMAIN alarmStatusLookup \cup {0, 2097283} :
       LET data == [alarm_status |-> code]
       IN /\ rx' = [device |-> "twinguard", ep |-> 1, cluster |-> "twinguardAlarm",
                    type |-> "attributeReport", data |-> data,
                    matched |-> {"twinguardAlarm"},
                    patch |-> twinguardAlarm_convert(data),
                    exposesChanged |-> FALSE]
          /\ UNCHANGED <<call, wire, ret, deviceMeta, storedDeviceMode>>
          /\ UNCHANGED <<buttonVars, decodeVars>>

\* zone status words: the action in bits 11-12 is 0, 1, 2 or 3, with and without flags
ContactReport ==
    \E type \in {"commandStatusChangeNotification", "attributeReport"},
       actionCode \in 0..3, flagBits \in {0, 1, 5, 2 ^ 9} :
       LET zoneStatus == actionCode * 2 ^ 11 + flagBits
           data == IF type = "commandStatusChangeNotification"
                   THEN [zonestatus |-> zoneStatus] ELSE [zoneStatus |-> zoneStatus]
       IN /\ rx' = [device |-> "contact", ep |-> 1, cluster |-> "ssIasZone",
                    type |-> type, data |-> data,
                    matched |-> {"ssIasZone"},
                    patch |-> doorWindowContact_convert(type, data),
                    exposesChanged |-> FALSE]
          /\ UNCHANGED <<call, wire, ret, deviceMeta, storedDeviceMode>>
          /\ UNCHANGED <<buttonVars, decodeVars>>

\* a report of endpoint 1 of the BMCT-SLZ that carries an enumeration and the child lock
BmctPairReport ==
    \E attr \in {"deviceMode", "switchType", "motorState"}, code \in Codes, lock \in {0, 1} :
       LET data == (attr :> code) @@ [childLock |-> lock]
       IN /\ rx' = [device |-> "bmct", ep |-> 1, cluster |-> "boschSpecific",
                    type |-> "attributeReport", data |-> data,
                    matched |-> {"boschSpecific"},
                    patch |-> bmct_convert(1, data),
                    exposesChanged |-> bmct_modeChanged(data, deviceMeta)]
          /\ deviceMeta' = IF bmct_modeChanged(data, deviceMeta)
                           THEN {data["deviceMode"]} ELSE deviceMeta
          /\ storedDeviceMode' = saveClusterAttributeKeyValue(1, data, storedDeviceMode)
          /\ UNCHANGED <<call, wire, ret>>
          /\ UNCHANGED <<buttonVars, decodeVars>>

NextEnumDecode ==
    TwinguardReport \/ TwinguardAlarmReport \/ AlarmCommand \/ ContactReport \/ BmctPairReport

SpecEnumDecode == Init /\ [][NextEnumDecode]_vars

(***************************************************************************)
(* SpecMeasurements: the reports of the twinguardMeasurements cluster      *)
(***************************************************************************)
\* lib/bosch.ts line 492: withValueMax(500) of the exposed aqi
aqiMax == 500

\* lib/bosch.ts lines 534-551 with the factors of the lowest band for every reading
AirFactors_lowestBand(iaq) == [voc |-> 6, co2 |-> 2]
\* lib/bosch.ts lines 534-551: factorVoc and factorCo2 of a reading
AirFactors(iaq) ==
    IF iaq >= 51 /\ iaq <= 100 THEN [voc |-> 10, co2 |-> 4]
    ELSE IF iaq >= 101 /\ iaq <= 150 THEN [voc |-> 20, co2 |-> 4]
    ELSE IF iaq >= 151 /\ iaq <= 200 THEN [voc |-> 50, co2 |-> 4]
    ELSE IF iaq >= 201 /\ iaq <= 250 THEN [voc |-> 100, co2 |-> 4]
    ELSE IF iaq >= 251 THEN [voc |-> 100, co2 |-> 4]
    ELSE [voc |-> 6, co2 |-> 2]

\* lib/bosch.ts lines 520-565: the twinguardMeasurements decoder; a quotient
\* raw / unit is kept as its whole part and the remaining units
twinguardMeasurements_convert(data) ==
    LET quotient(raw, unit) == [whole |-> raw \div unit, rest |-> raw % unit, unit |-> unit]
        humidity ==
            IF "humidity" \in DOMAIN data /\ data["humidity"] >= 0 /\ data["humidity"] <= 100 * 100
            THEN [humidity |-> quotient(data["humidity"], 100)] ELSE <<>>
        air ==
            IF "airpurity" \in DOMAIN data
            THEN LET iaq == data["airpurity"]
                 IN [aqi |-> iaq,
                     voc |-> iaq * AirFactors(iaq).voc,
                     co2 |-> iaq * AirFactors(iaq).co2 + 400]
            ELSE <<>>
        temperature ==
            IF "temperature" \in DOMAIN data
            THEN [temperature |-> quotient(data["temperature"], 100)] ELSE <<>>
        lux ==
            IF "illuminance_lux" \in DOMAIN data
            THEN [illuminance_lux |-> quotient(data["illuminance_lux"], 2)] ELSE <<>>
        battery ==
            IF "battery" \in DOMAIN data
            THEN [battery |-> quotient(data["battery"], 2)] ELSE <<>>
    IN humidity @@ air @@ temperature @@ lux @@ battery

\* a report of the air purity, alone or with one of the other measurements;
\* readings run past the exposed maximum
MeasurementsReport ==
    \E iaq \in 0..(aqiMax + 10),
       other \in {<<>>, [humidity |-> 4550], [humidity |-> 10001], [temperature |-> 2150],
                  [illuminance_lux |-> 7], [battery |-> 199]} :
       LET data == [airpurity |-> iaq] @@ other
       IN /\ rx' = [device |-> "twinguard", ep |-> 1, cluster |-> "twinguardMeasurements",
                    type |-> "attributeReport", data |-> data,
                    matched |-> {"twinguardMeasurements"},
                    patch |-> twinguardMeasurements_convert(data),
                    exposesChanged |-> FALSE]
          /\ UNCHANGED <<call, wire, ret, deviceMeta, storedDeviceMode>>
          /\ UNCHANGED <<buttonVars, decodeVars>>

NextMeasurements == MeasurementsReport

SpecMeasurements == Init /\ [][NextMeasurements]_vars

(***************************************************************************)
(* SpecSet: any property set or read through any of the converters         *)
(***************************************************************************)
SetProperty ==
    \E conv \in SetConverters, entity \in SetEntities :
       \E key \in SetKeys(conv), state \in MetaStates(conv) :
          \E value \in SetValues(conv, key) : StartCall("set", conv, entity, key, value, state)

GetProperty ==
    \E conv \in GetConverters, entity \in SetEntities :
       \E key \in SetKeys(conv) : StartCall("get", conv, entity, key, "", <<>>)

NextSet == SetProperty \/ GetProperty \/ OperationSucceeds \/ OperationFails

SpecSet == Init /\ [][NextSet]_vars

(***************************************************************************)
(* SpecSiren: the outdoor siren, its properties set and its manufacturer   *)
(* attributes read back                                                    *)
(***************************************************************************)
SirenSet ==
    \E entity \in SetEntities, key \in SetKeys("rbshoszbeu") :
       \E value \in SetValues("rbshoszbeu", key) : StartSet("rbshoszbeu", entity, key, value)

NextSiren == SirenSet \/ OperationSucceeds \/ OperationFails \/ SirenReadResponse

SpecSiren == Init /\ [][NextSiren]_vars

(***************************************************************************)
(* SpecRoundTrip: the enumerations of the Twinguard and of the BMCT-SLZ,   *)
(* set by the user and reported by the device                              *)
(***************************************************************************)
RoundTripKeys(conv) ==
    CASE conv = "twinguard" -> {"sensitivity", "pre_alarm", "heartbeat"}
      [] conv = "bmct" -> {"device_mode", "switch_type", "child_lock"}

SetEnumeration ==
    \E conv \in {"twinguard", "bmct"}, entity \in SetEntities :
       \E key \in RoundTripKeys(conv) :
          \E value \in SetValues(conv, key) : StartSet(conv, entity, key, value)

NextRoundTrip ==
    SetEnumeration \/ OperationSucceeds \/ OperationFails \/ TwinguardReport \/ BmctReport

SpecRoundTrip == Init /\ [][NextRoundTrip]_vars

(***************************************************************************)
(* Configure sequences (devices/bosch.ts): each step is awaited; the steps *)
(* are issued to the device and complete later, successfully or not        *)
(***************************************************************************)
Bind(ep, clusters) == [op |-> "bind", ep |-> ep, clusters |-> clusters]
Unbind(ep, cluster) == [op |-> "unbind", ep |-> ep, clusters |-> <<cluster>>]
\* a helper of lib/reporting (reporting.batteryVoltage(endpoint), ...)
Reporting(ep, helper) == [op |-> "reporting", ep |-> ep, helper |-> helper]
ConfigureReporting(ep, cluster, attribute, mfr) ==
    [op |-> "configureReporting", ep |-> ep, cluster |-> cluster,
     attributes |-> <<attribute>>, mfr |-> mfr]
ReadAttributes(ep, cluster, attributes, mfr) ==
    [op |-> "read", ep |-> ep, cluster |-> cluster, attributes |-> attributes, mfr |-> mfr]

\* devices/bosch.ts lines 257-263
configure_BSIR_EZ ==
    << Bind(1, <<"genPowerCfg", "ssIasZone", "ssIasWd", "genBasic">>),
       Reporting(1, "batteryVoltage"),
       ReadAttributes(1, "0x0502",
                      <<"0xa000", "0xa001", "0xa002", "0xa003", "0xa004", "0xa005">>, TRUE),
       Unbind(1, "genPollCtrl") >>

\* devices/bosch.ts lines 366-371
configure_BWA_1 ==
    << ReadAttributes(1, "genPowerCfg", <<"batteryPercentageRemaining">>, FALSE),
       ReadAttributes(1, "ssIasZone", <<"zoneStatus">>, FALSE),
       ReadAttributes(1, "boschSpecific", <<"alarmOnMotion">>, TRUE) >>

\* devices/bosch.ts lines 416-421
configure_BSD_2 ==
    << ReadAttributes(1, "genPowerCfg", <<"batteryPercentageRemaining">>, FALSE),
       ReadAttributes(1, "ssIasZone", <<"zoneStatus">>, FALSE),
       ReadAttributes(1, "ssIasZone", <<"currentZoneSensitivityLevel">>, FALSE) >>

\* devices/bosch.ts lines 432-438
configure_RADON_TriTech_ZB ==
    << Bind(1, <<"msTemperatureMeasurement", "genPowerCfg", "msIlluminanceMeasurement">>),
       Reporting(1, "temperature"),
       Reporting(1, "batteryVoltage"),
       Reporting(1, "illuminance") >>

\* devices/bosch.ts lines 449-454 (endpoint 5) and 790-795 (endpoint 1)
configure_motion(ep) ==
    << Bind(ep, <<"msTemperatureMeasurement", "genPowerCfg">>),
       Reporting(ep, "temperature"),
       Reporting(ep, "batteryVoltage") >>

\* devices/bosch.ts lines 539-565
configure_BTH_RA ==
    << Bind(1, <<"hvacThermostat", "hvacUserInterfaceCfg">>),
       Reporting(1, "thermostatTemperature"),
       Reporting(1, "thermostatOccupiedHeatingSetpoint"),
       Reporting(1, "thermostatKeypadLockMode"),
       ConfigureReporting(1, "hvacThermostat", "heatingDemand", TRUE),
       ReadAttributes(1, "genPowerCfg", <<"batteryPercentageRemaining">>, FALSE),
       ReadAttributes(1, "hvacThermostat",
                      <<"localTemperatureCalibration", "setpointChangeSource">>, FALSE),
       ReadAttributes(1, "hvacThermostat",
                      <<"operatingMode", "heatingDemand", "valveAdaptStatus",
                        "remoteTemperature", "windowDetection", "boostHeating">>, TRUE),
       ReadAttributes(1, "hvacUserInterfaceCfg", <<"keypadLockout">>, FALSE),
       ReadAttributes(1, "hvacUserInterfaceCfg",
                      <<"displayOrientation", "displayedTemperature", "displayOntime",
                        "displayBrightness">>, TRUE) >>

\* devices/bosch.ts lines 642-664: the steps the two room thermostats share
configure_roomThermostat(reads) ==
    << Bind(1, <<"hvacThermostat", "hvacUserInterfaceCfg">>),
       Reporting(1, "thermostatSystemMode"),
       Reporting(1, "thermostatRunningState"),
       Reporting(1, "thermostatTemperature"),
       Reporting(1, "thermostatOccupiedHeatingSetpoint"),
       Reporting(1, "thermostatOccupiedCoolingSetpoint"),
       Reporting(1, "thermostatKeypadLockMode") >>
    \o reads \o
    << ReadAttributes(1, "hvacThermostat", <<"localTemperatureCalibration">>, FALSE),
       ReadAttributes(1, "hvacThermostat",
                      <<"operatingMode", "windowDetection", "boostHeating">>, TRUE),
       ReadAttributes(1, "hvacUserInterfaceCfg", <<"keypadLockout">>, FALSE),
       ReadAttributes(1, "hvacUserInterfaceCfg", <<"displayOntime", "displayBrightness">>, TRUE) >>

\* devices/bosch.ts lines 598-622: the battery thermostat also reads its voltage
configure_BTH_RM ==
    configure_roomThermostat(<<ReadAttributes(1, "genPowerCfg", <<"batteryVoltage">>, FALSE)>>)

\* devices/bosch.ts lines 767-780
configure_8750001213 ==
    << Bind(7, <<"genPollCtrl">>),
       Bind(1, <<"genAlarms", "twinguardSmokeDetector", "twinguardOptions">>),
       Bind(3, <<"twinguardMeasurements">>),
       Bind(12, <<"twinguardSetup", "twinguardAlarm">>),
       ReadAttributes(1, "twinguardOptions", <<"unknown1">>, TRUE),
       Command(12, "twinguardSetup", "pairingCompleted", 0, TRUE),
       Write(1, "twinguardSmokeDetector", "sensitivity", 2, 0, TRUE),
       Write(1, "twinguardOptions", "pre_alarm", 1, 0, TRUE),
       Write(12, "twinguardSetup", "heartbeat", 1, 0, TRUE),
       ReadAttributes(1, "twinguardSmokeDetector", <<"sensitivity">>, TRUE),
       ReadAttributes(1, "twinguardOptions", <<"pre_alarm">>, TRUE),
       ReadAttributes(12, "twinguardSetup", <<"heartbeat">>, TRUE) >>

\* devices/bosch.ts lines 806-816
configure_BSP_FZ2 ==
    << ReadAttributes(1, "genOnOff", <<"onOff", "startUpOnOff">>, FALSE),
       Bind(1, <<"genOnOff">>),
       Bind(1, <<"seMetering">>),
       Reporting(1, "readMeteringMultiplierDivisor"),
       Reporting(1, "currentSummDelivered"),
       Bind(1, <<"haElectricalMeasurement">>),
       ReadAttributes(1, "haElectricalMeasurement", <<"acPowerMultiplier", "acPowerDivisor">>, FALSE),
       Reporting(1, "activePower") >>

\* devices/bosch.ts lines 839-843 and 861-865
configure_contact ==
    << ReadAttributes(1, "genPowerCfg", <<"batteryPercentageRemaining">>, FALSE),
       ReadAttributes(1, "ssIasZone", <<"zoneStatus">>, FALSE) >>

\* devices/bosch.ts lines 909-937
configure_BMCT_SLZ ==
    << Bind(1, <<"genIdentify", "closuresWindowCovering", "boschSpecific">>),
       Reporting(1, "currentPositionLiftPercentage"),
       ReadAttributes(1, "boschSpecific",
                      <<"deviceMode", "switchType", "motorState", "childLock",
                        "calibrationOpeningTime", "calibrationClosingTime",
                        "calibrationButtonHoldTime", "calibrationMotorStartDelay">>, FALSE),
       ReadAttributes(2, "boschSpecific", <<"childLock">>, FALSE),
       Bind(2, <<"genIdentify", "genOnOff">>),
       Reporting(2, "onOff"),
       ReadAttributes(3, "boschSpecific", <<"childLock">>, FALSE),
       Bind(3, <<"genIdentify", "genOnOff">>),
       Reporting(3, "onOff") >>

\* devices/bosch.ts lines 1064-1081
configure_BHI_US ==
    << ReadAttributes(1, "boschSpecific", <<"0x0010", "0x0011", "0x0012", "0x0013">>, TRUE),
       ReadAttributes(1, "boschSpecific", <<"0x0020", "0x0021", "0x0022", "0x0023">>, TRUE),
       ReadAttributes(1, "boschSpecific", <<"0x0024">>, TRUE),
       Command(1, "boschSpecific", "pairingCompleted", 0, FALSE),
       Bind(1, <<"genPowerCfg", "genBasic", "boschSpecific">>),
       Reporting(1, "batteryPercentageRemaining"),
       Reporting(1, "batteryVoltage") >>

ConfiguredDevices ==
    {"BSIR-EZ", "BWA-1", "BSD-2", "RADON TriTech ZB", "ISW-ZPR1-WP13", "BTH-RA", "BTH-RM",
     "BTH-RM230Z", "8750001213", "RFPR-ZB-SH-EU", "BSP-FZ2", "BSEN-C2", "BSEN-CV",
     "BMCT-SLZ", "BHI-US"}

configure(device) ==
    CASE device = "BSIR-EZ" -> configure_BSIR_EZ
      [] device = "BWA-1" -> configure_BWA_1
      [] device = "BSD-2" -> configure_BSD_2
      [] device = "RADON TriTech ZB" -> configure_RADON_TriTech_ZB
      [] device = "ISW-ZPR1-WP13" -> configure_motion(5)
      [] device = "BTH-RA" -> configure_BTH_RA
      [] device = "BTH-RM" -> configure_BTH_RM
      [] device = "BTH-RM230Z" -> configure_roomThermostat(<<>>)
      [] device = "8750001213" -> configure_8750001213
      [] device = "RFPR-ZB-SH-EU" -> configure_motion(1)
      [] device = "BSP-FZ2" -> configure_BSP_FZ2
      [] device = "BSEN-C2" -> configure_contact
      [] device = "BSEN-CV" -> configure_contact
      [] device = "BMCT-SLZ" -> configure_BMCT_SLZ
      [] device = "BHI-US" -> configure_BHI_US

\* the steps whose rejection is caught: .catch((error) => {}) at lines 1069 and 1071
CatchesRejection_never(device) == {}
CatchesRejection_always(device) == DOMAIN configure(device)
CatchesRejection(device) == IF device = "BHI-US" THEN {1, 2} ELSE {}

\* whether a step is issued only when the one before it has completed (await)
AwaitsEachStep_no == FALSE
AwaitsEachStep == TRUE

(***************************************************************************)
(* Running a sequence of awaited steps, issue and completion apart         *)
(***************************************************************************)
Run(conv, device, steps, caught, state) ==
    [conv |-> conv, device |-> device, steps |-> steps, caught |-> caught, state |-> state,
     status |-> IF steps = <<>> THEN "resolved" ELSE "configuring",
     outstanding |-> 0, swallowed |-> {}, failed |-> 0]

StartRun(conv, device, steps, caught, state) ==
    /\ call.status \notin {"configuring", "running"}
    /\ call' = Run(conv, device, steps, caught, state)
    /\ wire' = <<>>
    /\ ret' = IF steps = <<>> THEN state ELSE Nothing
    /\ UNCHANGED <<rx, deviceMeta, storedDeviceMode>>
    /\ UNCHANGED <<buttonVars, decodeVars>>

\* the next step is issued to the device
IssueStep ==
    /\ call.status = "configuring"
    /\ Len(wire) < Len(call.steps)
    /\ AwaitsEachStep => call.outstanding = 0
    /\ wire' = Append(wire, call.steps[Len(wire) + 1])
    /\ call' = [call EXCEPT !.outstanding = @ + 1]
    /\ UNCHANGED <<ret, rx, deviceMeta, storedDeviceMode>>
    /\ UNCHANGED <<buttonVars, decodeVars>>

\* the oldest outstanding step, and whether the run ends when it completes
Completing == Len(wire) - call.outstanding + 1
LastStep == Len(wire) = Len(call.steps) /\ call.outstanding = 1

StepSucceeds ==
    /\ call.status = "configuring"
    /\ call.outstanding > 0
    /\ call' = [call EXCEPT !.outstanding = @ - 1,
                            !.status = IF LastStep THEN "resolved" ELSE "configuring"]
    /\ ret' = IF LastStep THEN call.state ELSE ret
    /\ UNCHANGED <<wire, rx, deviceMeta, storedDeviceMode>>
    /\ UNCHANGED <<buttonVars, decodeVars>>

StepFails ==
    /\ call.status = "configuring"
    /\ call.outstanding > 0
    /\ IF Completing \in call.caught
       THEN /\ call' = [call EXCEPT !.outstanding = @ - 1,
                                 !.swallowed = @ \cup {Completing},
                                 !.status = IF LastStep THEN "resolved" ELSE "configuring"]
            /\ ret' = IF LastStep THEN call.state ELSE ret
       ELSE /\ call' = [call EXCEPT !.outstanding = @ - 1,
                                    !.failed = Completing,
                                    !.status = "rejected"]
            /\ ret' = Nothing
    /\ UNCHANGED <<wire, rx, deviceMeta, storedDeviceMode>>
    /\ UNCHANGED <<buttonVars, decodeVars>>

Configure ==
    \E device \in ConfiguredDevices :
       StartRun("configure", device, configure(device), CatchesRejection(device), Nothing)

\* a convertSet of the Twinguard, its operations run the same way
TwinguardSet ==
    \E key \in {"alarm", "sensitivity"} :
       \E value \in DOMAIN EnumTable("twinguard", key) :
          /\ ~convertSet("twinguard", 1, key, value).threw
          /\ StartRun("twinguard", "8750001213", convertSet("twinguard", 1, key, value).ops, {},
                      convertSet("twinguard", 1, key, value).state)

NextConfigure == Configure \/ TwinguardSet \/ IssueStep \/ StepSucceeds \/ StepFails

SpecConfigure == Init /\ [][NextConfigure]_vars

(***************************************************************************)
(* BMCT-SLZ: the exposes of the definition (devices/bosch.ts 938-1002)     *)
(***************************************************************************)
\* an expose of lib/exposes: its name, the endpoint given with withEndpoint,
\* and the property it is published under
Expose(name, access) == [name |-> name, endpoint |-> "", property |-> name, access |-> access]
withEndpoint(expose, endpointName) ==
    [expose EXCEPT !.endpoint = endpointName, !.property = expose.name \o "_" \o endpointName]

commonExposes == << Expose("switch_type", "ALL"), Expose("linkquality", "STATE") >>
lightExposes ==
    << withEndpoint(Expose("state", "ALL"), "left"),
       withEndpoint(Expose("state", "ALL"), "right"),
       withEndpoint(Expose("power_on_behavior", "ALL"), "left"),
       withEndpoint(Expose("power_on_behavior", "ALL"), "right"),
       withEndpoint(Expose("child_lock", "ALL"), "left"),
       withEndpoint(Expose("child_lock", "ALL"), "right") >>
coverExposes ==
    << Expose("position", "ALL"),
       Expose("motor_state", "STATE"),
       Expose("child_lock", "ALL"),
       Expose("calibration_closing_time", "ALL"),
       Expose("calibration_opening_time", "ALL"),
       Expose("calibration_button_hold_time", "ALL"),
       Expose("calibration_motor_start_delay", "ALL") >>
fallbackExposes == << Expose("device_mode", "ALL"), Expose("linkquality", "STATE") >>

\* lines 994-998 with the light list returned for either mode
ModeExposes_lightForBoth(deviceMode) ==
    IF deviceMode \in {"light", "shutter"} THEN commonExposes \o lightExposes
    ELSE fallbackExposes
\* lines 994-1001: the list for the decoded mode
ModeExposes(deviceMode) ==
    CASE deviceMode = "light" -> commonExposes \o lightExposes
      [] deviceMode = "shutter" -> commonExposes \o coverExposes
      [] OTHER -> fallbackExposes

\* lines 990-1001: exposes(device, options), stored the deviceMode of endpoint 1
exposes(device, stored) ==
    IF device /\ stored # {}
    THEN ModeExposes(ObjectKeysFind(stateDeviceModeKeys, stateDeviceMode,
                                    CHOOSE code \in stored : TRUE))
    ELSE fallbackExposes

\* devices/bosch.ts lines 1011-1038: the properties the BHI-US exposes
\* (e.battery_low(), e.battery_voltage() and the eight LED configurations)
bhiusExposes == {"battery_low", "voltage"} \cup DOMAIN buttonMap

\* lib/bosch.ts lines 325-334 and devices/bosch.ts lines 828-833: the properties
\* a door/window contact exposes, battery and battery_low from battery({...})
contactExposes(hasVibrationSensor) ==
    {"contact", "action", "battery", "battery_low"}
        \cup (IF hasVibrationSensor THEN {"vibration"} ELSE {})

(***************************************************************************)
(* SpecReport: the boschSpecific reports and read responses of a BMCT-SLZ  *)
(***************************************************************************)
NextReport == BmctReport

SpecReport == Init /\ [][NextReport]_vars

(***************************************************************************)
(* Properties of the button decoder                                        *)
(***************************************************************************)
\* the step hands a button message to bhius_button_press
ButtonStep == msg'.conv = "bhius_button_press"
\* ... one whose sequence number this endpoint has not delivered before
FreshButtonStep ==
    /\ ButtonStep
    /\ msg'.sequenceNumber \notin transactionStore[msg'.ep]
KnownButton(m) == m.buttonId \in 0..3
\* a long-press notification: flag set and a duration above zero
IsHoldMsg(m) == m.longPress # 0 /\ m.duration > 0
\* every other message of a known button is a release
IsReleaseMsg(m) == ~IsHoldMsg(m)
HasEntry(st, ep, name) == name \in DOMAIN st[ep]

\* C1: a button message whose sequence number the same endpoint has already
\* delivered yields no state patch, whatever its button id, long-press flag
\* and duration; it also changes neither the registry nor the acknowledgments.
C1_DuplicateSequenceNumberIsDropped ==
    [][(ButtonStep /\ msg'.sequenceNumber \in transactionStore[msg'.ep])
            => /\ result' = Nothing
               /\ ~threw'
               /\ UNCHANGED <<store, inflight, transactionStore>>]_vars

\* C1 witness: a release of a known button came back without a patch, which
\* only happens to a message dropped as already processed.
C1_Witness ==
    /\ msg.conv = "bhius_button_press"
    /\ KnownButton(msg)
    /\ IsReleaseMsg(msg)
    /\ result = Nothing

\* C2: a release of a known button that is processed leaves no pending entry
\* for that endpoint and button, whether or not a long-press notification had
\* created one, and completes without throwing.
C2_ReleaseClearsPendingEntry ==
    [][(FreshButtonStep /\ KnownButton(msg') /\ IsReleaseMsg(msg'))
            => /\ ~HasEntry(store', msg'.ep, buttons[msg'.buttonId])
               /\ ~threw'
               /\ result' # Nothing]_vars

\* C2 witness: the release just processed removed the entry of a hold.
C2_Witness ==
    /\ msg.conv = "bhius_button_press"
    /\ KnownButton(msg)
    /\ IsReleaseMsg(msg)
    /\ cleared = "entry"
    /\ ~HasEntry(store, msg.ep, buttons[msg.buttonId])

\* C3: an entry appears only through a processed long-press notification with
\* nonzero duration for that endpoint and button while none exists, it goes
\* with the next processed release, a long-press notification arriving while
\* it exists yields no patch, and so every hold has exactly one longpress
\* action before its release.
C3_EntryLifecycle ==
    [][/\ \A ep \in Endpoints, n \in ButtonNames :
            /\ (~HasEntry(store, ep, n) /\ HasEntry(store', ep, n))
                  => /\ FreshButtonStep /\ msg'.ep = ep
                     /\ KnownButton(msg') /\ buttons[msg'.buttonId] = n
                     /\ IsHoldMsg(msg')
                     /\ result' = [action |-> "button_" \o n \o "_longpress"]
            /\ (HasEntry(store, ep, n) /\ ~HasEntry(store', ep, n))
                  => /\ FreshButtonStep /\ msg'.ep = ep
                     /\ KnownButton(msg') /\ buttons[msg'.buttonId] = n
                     /\ IsReleaseMsg(msg')
            /\ longpressActions'[ep][n] = IF HasEntry(store', ep, n) THEN 1 ELSE 0
       /\ (FreshButtonStep /\ KnownButton(msg') /\ IsReleaseMsg(msg'))
            => ~HasEntry(store', msg'.ep, buttons[msg'.buttonId])
       /\ (ButtonStep /\ KnownButton(msg') /\ IsHoldMsg(msg')
             /\ HasEntry(store, msg'.ep, buttons[msg'.buttonId]))
            => result' = Nothing /\ store' = store]_vars

\* C3 witness: a long-press notification with a fresh sequence number was
\* swallowed because the hold is already pending.
C3_Witness ==
    /\ msg.conv = "bhius_button_press"
    /\ KnownButton(msg)
    /\ IsHoldMsg(msg)
    /\ result = Nothing
    /\ Cardinality(transactionStore[msg.ep]) = 2
    /\ longpressActions[msg.ep][buttons[msg.buttonId]] = 1

\* C4: a button message of endpoint ep for button n leaves the entry of every
\* other endpoint and of every other button as it is, and what it returns
\* depends on the entry of (ep, n) alone: with no entry for (ep, n) a fresh
\* long-press notification gets its longpress action whatever is pending
\* elsewhere.
C4_RegistryKeyedPerEndpointAndButton ==
    [][ButtonStep =>
        /\ \A ep \in Endpoints, n \in ButtonNames :
              (ep # msg'.ep \/ ~KnownButton(msg') \/ n # buttons[msg'.buttonId])
                  => /\ HasEntry(store', ep, n) = HasEntry(store, ep, n)
                     /\ HasEntry(store, ep, n) => store'[ep][n] = store[ep][n]
        /\ (FreshButtonStep /\ KnownButton(msg') /\ IsHoldMsg(msg')
              /\ ~HasEntry(store, msg'.ep, buttons[msg'.buttonId]))
                  => result' = [action |-> "button_" \o buttons[msg'.buttonId] \o "_longpress"]]_vars

\* C4 witness: the same button is pending on both endpoints at once, the
\* second hold having been announced while the first was pending.
C4_Witness ==
    /\ msg.conv = "bhius_button_press"
    /\ KnownButton(msg)
    /\ IsHoldMsg(msg)
    /\ result # Nothing
    /\ \A ep \in Endpoints : HasEntry(store, ep, buttons[msg.buttonId])

\* C5: the decode of a release returns its action patch while the
\* confirmButtonPressed command it issued is still outstanding; no button
\* decode fails; and the settling of a command, rejected or not, changes
\* neither the returned patch nor anything a later decode reads.
C5_ConfirmIsFireAndForget ==
    [][/\ (FreshButtonStep /\ KnownButton(msg') /\ IsReleaseMsg(msg'))
            => /\ inflight'[msg'.ep] = inflight[msg'.ep] + 1
               /\ result' = [action |-> "button_" \o buttons[msg'.buttonId] \o "_"
                                \o (IF msg'.longPress # 0 THEN "longpress_release" ELSE "release")]
       /\ ButtonStep => ~threw'
       /\ msg'.conv \in {"confirm_rejected", "confirm_settled"}
            => UNCHANGED <<result, threw, store, transactionStore>>]_vars

\* C5 witness: a message was decoded into a patch while an acknowledgment
\* of an earlier release of the same endpoint is outstanding.
C5_Witness ==
    /\ msg.conv = "bhius_button_press"
    /\ KnownButton(msg)
    /\ IsHoldMsg(msg)
    /\ result # Nothing
    /\ inflight[msg.ep] > 0

(***************************************************************************)
(* Properties of the decoders that issue a command                         *)
(***************************************************************************)
\* C6: when the command a decode issues as a side effect fails, the decode
\* does not fail and still returns its state patch. For the alarm response of
\* the Twinguard the patch is the siren_state of the alarm code; the read
\* response of ignoreDst and the button acknowledgment carry no patch of
\* their own.
C6_SideEffectFailureIsSwallowed ==
    /\ (msg.conv = "twinguard_genAlarms" /\ sent # NoCommand /\ ~msg.transportOk)
          => /\ ~threw
             /\ result = [siren_state |-> IF msg.alarmcode = 16 THEN "fire" ELSE "pre_alarm"]
    /\ (msg.conv = "ignoreDst" /\ sent # NoCommand /\ ~msg.transportOk)
          => ~threw
    /\ msg.conv = "confirm_rejected" => ~threw

(***************************************************************************)
(* Properties of the encode converters                                     *)
(***************************************************************************)
SetOf(conv, key) == call.conv = conv /\ call.method = "set" /\ call.key = key
OutOfTable == call.value \notin DOMAIN EnumTable(call.conv, call.key)

\* C7: a set of an enumeration property (siren_volume, siren_and_light,
\* power_source, alarm_state; alarm_smoke, alarm_burglar, broadcast_alarm;
\* sensitivity, pre_alarm, heartbeat, alarm; device_mode, switch_type,
\* child_lock) with a value that is no key of the property's lookup table
\* fails with an error: nothing is written, commanded or read, and no state
\* patch is returned.
C7_OutOfTableValueFailsBeforeAnyOperation ==
    (call.conv \in Converters /\ call.method = "set" /\ call.key \in EnumKeys(call.conv)
        /\ OutOfTable)
        => /\ call.status = "threw"
           /\ wire = <<>>
           /\ ret = Nothing

C7_Witness ==
    /\ SetOf("rbshoszbeu", "siren_volume")
    /\ call.value = "ON"
    /\ call.status = "threw"
    /\ wire = <<>>

\* C8: on the outdoor siren, a set of siren_volume = 'medium' writes the value
\* 0x02 to attribute 0xa002 of cluster 0x0502, and a read response carrying
\* 0x02 for that attribute is decoded by the device's decode converters into
\* the patch {siren_volume: 'medium'}.
C8_SirenVolumeMediumWritesAndDecodes ==
    /\ (SetOf("rbshoszbeu", "siren_volume") /\ call.value = "medium"
            /\ call.status = "returned")
          => wire = <<Write(call.entity, "0x0502", "0xa002", 2, 32, TRUE)>>
    /\ (rx # NoMsg /\ rx.device = "BSIR-EZ" /\ rx.cluster = "0x0502"
            /\ "0xa002" \in DOMAIN rx.data /\ rx.data["0xa002"] = 2)
          => rx.patch = [siren_volume |-> "medium"]

(***************************************************************************)
(* Round trips: what a set writes against what a report decodes to         *)
(***************************************************************************)
ReportedAttribute(key) ==
    CASE key = "device_mode" -> "deviceMode"
      [] key = "switch_type" -> "switchType"
      [] key = "child_lock" -> "childLock"
      [] OTHER -> key
PatchProperty(key, ep) ==
    IF key = "child_lock" THEN postfixWithEndpointName(key, ep) ELSE key
TableCodes(table) == {table[symbol] : symbol \in DOMAIN table}

\* the set of a symbol of the table has returned; its first operation is the write
Encoded(conv, key) ==
    /\ SetOf(conv, key)
    /\ call.status = "returned"
    /\ call.value \in DOMAIN EnumTable(conv, key)
\* a report of the property's attribute has been decoded
Decoded(device, key) ==
    /\ rx # NoMsg
    /\ rx.device = device
    /\ ReportedAttribute(key) \in DOMAIN rx.data
DecodedCode(key) == rx.data[ReportedAttribute(key)]
DecodedSymbol(key) == rx.patch[PatchProperty(key, rx.ep)]

\* decode(encode(s)) = s
DecodeOfEncode(conv, key) ==
    (Encoded(conv, key) /\ Decoded(conv, key) /\ DecodedCode(key) = wire[1].value)
        => DecodedSymbol(key) = call.value
\* encode(decode(c)) = c: the code decodes to a symbol of the table, and the
\* set of that symbol writes the code
EncodeOfDecode(conv, key) ==
    (Decoded(conv, key) /\ DecodedCode(key) \in TableCodes(EnumTable(conv, key)))
        => /\ DecodedSymbol(key) \in DOMAIN EnumTable(conv, key)
           /\ (Encoded(conv, key) /\ call.value = DecodedSymbol(key))
                 => wire[1].value = DecodedCode(key)

\* C9: the Twinguard properties sensitivity, pre_alarm and heartbeat round
\* trip: the code a set of a symbol writes is decoded back to that symbol, and
\* a code of the table is decoded to the symbol whose set writes that code.
C9_TwinguardRoundTrip ==
    \A key \in RoundTripKeys("twinguard") :
        DecodeOfEncode("twinguard", key) /\ EncodeOfDecode("twinguard", key)

\* C10: the BMCT-SLZ properties device_mode, switch_type and child_lock round
\* trip: the code a set of a symbol writes is decoded back to that symbol, and
\* a code of the table is decoded to the symbol whose set writes that code.
C10_BmctRoundTrip ==
    \A key \in RoundTripKeys("bmct") :
        DecodeOfEncode("bmct", key) /\ EncodeOfDecode("bmct", key)

C10_Witness ==
    /\ Encoded("bmct", "device_mode")
    /\ call.value = "light"
    /\ Decoded("bmct", "device_mode")
    /\ DecodedCode("device_mode") = 4
    /\ wire[1].value = 4
    /\ DecodedSymbol("device_mode") = "light"

(***************************************************************************)
(* Properties of the configure sequences                                   *)
(***************************************************************************)
Configuring(device) == call.conv = "configure" /\ call.device = device
IsPrefix(p, q) == Len(p) <= Len(q) /\ \A i \in 1..Len(p) : p[i] = q[i]
\* the steps after the two reads of the LED configuration, in order
BHIUSLaterSteps ==
    << ReadAttributes(1, "boschSpecific", <<"0x0024">>, TRUE),
       Command(1, "boschSpecific", "pairingCompleted", 0, FALSE),
       Bind(1, <<"genPowerCfg", "genBasic", "boschSpecific">>),
       Reporting(1, "batteryPercentageRemaining"),
       Reporting(1, "batteryVoltage") >>

\* C11: in the configure of the BHI-US the two reads of the default LED
\* configuration are best effort: a rejection of either never makes configure
\* fail, the steps issued are always the sequence of the code in its order,
\* and a run that ends well has issued, after the two reads, the read of
\* 0x0024, pairingCompleted, the bind, and the battery percentage and battery
\* voltage reporting, in that order, whichever of the two reads was rejected.
C11_BestEffortReadsDoNotAbort ==
    Configuring("BHI-US")
        => /\ call.failed \notin {1, 2}
           /\ IsPrefix(wire, configure_BHI_US)
           /\ (call.swallowed # {} /\ call.status = "configuring" /\ call.outstanding = 0)
                 => Len(wire) < Len(configure_BHI_US)
           /\ call.status = "resolved"
                 => /\ Len(wire) = 7
                    /\ SubSeq(wire, 3, 7) = BHIUSLaterSteps

C11_Witness ==
    /\ Configuring("BHI-US")
    /\ call.swallowed = {1, 2}
    /\ call.status = "resolved"
    /\ SubSeq(wire, 3, 7) = BHIUSLaterSteps

\* C12: in every configure sequence the failure of a step that is not error
\* wrapped (every step but the first two of the BHI-US) ends the run as
\* failed, and no step after the failed one has been issued.
C12_MandatoryFailureAborts ==
    call.conv = "configure"
        => /\ call.swallowed \subseteq (IF call.device = "BHI-US" THEN {1, 2} ELSE {})
           /\ call.failed # 0 <=> call.status = "rejected"
           /\ call.status = "rejected" => Len(wire) = call.failed

C12_Witness ==
    /\ Configuring("BSIR-EZ")
    /\ call.status = "rejected"
    /\ call.failed = 1
    /\ wire = <<Bind(1, <<"genPowerCfg", "ssIasZone", "ssIasWd", "genBasic">>)>>

\* C13: a configure run or converter invocation never has two of its
\* operations outstanding: a step is issued only when every step issued
\* before it has completed.
C13_OneOperationOutstanding ==
    call.status \in {"configuring", "resolved", "rejected"} /\ call.conv # "none"
        => /\ call.outstanding <= 1
           /\ call.outstanding = 1 => call.status = "configuring"

C13_Witness ==
    /\ call.conv = "twinguard"
    /\ call.status = "configuring"
    /\ call.outstanding = 1
    /\ Len(wire) = 3

(***************************************************************************)
(* Properties of the BMCT-SLZ modes                                        *)
(***************************************************************************)
Properties(list) == {list[i].property : i \in DOMAIN list}
CoverProperties ==
    {"position", "motor_state", "child_lock", "calibration_closing_time",
     "calibration_opening_time", "calibration_button_hold_time",
     "calibration_motor_start_delay"}
SwitchProperties ==
    {"state_left", "state_right", "power_on_behavior_left", "power_on_behavior_right",
     "child_lock_left", "child_lock_right"}
CommonProperties == {"switch_type", "linkquality"}

\* C14: what the BMCT-SLZ exposes follows the deviceMode stored for endpoint
\* 1: the cover properties (position, motor_state, child_lock and the four
\* calibration times) with 'shutter', the switch properties (state and
\* power_on_behavior of left and right, child_lock of left and right) with
\* 'light', and in both only switch_type and linkquality besides; no property
\* but these two common ones is exposed in both modes.
C14_ExposesFollowStoredMode ==
    /\ storedDeviceMode = {stateDeviceMode["shutter"]}
          => Properties(exposes(TRUE, storedDeviceMode)) = CommonProperties \cup CoverProperties
    /\ storedDeviceMode = {stateDeviceMode["light"]}
          => Properties(exposes(TRUE, storedDeviceMode)) = CommonProperties \cup SwitchProperties
    /\ storedDeviceMode # {}
          => Properties(exposes(TRUE, storedDeviceMode))
                \cap Properties(exposes(TRUE, {stateDeviceMode["light"]}))
                \cap Properties(exposes(TRUE, {stateDeviceMode["shutter"]}))
                \subseteq Properties(commonExposes)
    /\ Properties(commonExposes) = CommonProperties

C14_Witness ==
    /\ storedDeviceMode = {stateDeviceMode["shutter"]}
    /\ rx # NoMsg
    /\ rx.device = "bmct"
    /\ rx.ep = 1
    /\ "deviceMode" \in DOMAIN rx.data
    /\ "position" \in Properties(exposes(TRUE, storedDeviceMode))

BmctStep == rx' # rx /\ rx'.device = "bmct"

\* C15: a boschSpecific message of the BMCT-SLZ raises deviceExposesChanged
\* exactly when it carries a deviceMode that differs from the mode remembered
\* for the device, the remembered mode is then the reported one, and a message
\* that repeats the remembered mode or carries no deviceMode raises nothing
\* and leaves the remembered mode as it is.
C15_ModeChangeSignalsExposesChanged ==
    [][BmctStep =>
         LET carries == "deviceMode" \in DOMAIN rx'.data
         IN /\ rx'.exposesChanged <=> (carries /\ deviceMeta # {rx'.data["deviceMode"]})
            /\ carries => deviceMeta' = {rx'.data["deviceMode"]}
            /\ ~carries => deviceMeta' = deviceMeta]_vars

C15_Witness ==
    /\ rx # NoMsg
    /\ rx.device = "bmct"
    /\ "deviceMode" \in DOMAIN rx.data
    /\ ~rx.exposesChanged
    /\ deviceMeta = {rx.data["deviceMode"]}
    /\ storedDeviceMode = deviceMeta

(***************************************************************************)
(* Properties of the encode converters: keys, reads and returned patches   *)
(***************************************************************************)
KeyCheckedConverters ==
    {"rbshoszbeu", "bhius_config", "smokeAlarm", "twinguard", "bmct", "bmctCalibration",
     "heatingDemand", "valveAdaptProcess"}

\* C16: a convertSet or convertGet of rbshoszbeu, bhius_config, smokeAlarm,
\* twinguard, the two bmct converters, heatingDemand or valveAdaptProcess that
\* is invoked with a key the converter does not recognize throws and issues
\* nothing; it never returns silently.
C16_UnrecognizedKeyIsRejected ==
    (call.conv \in KeyCheckedConverters /\ call.key \notin ConverterKeys(call.conv))
        => /\ call.status = "threw"
           /\ wire = <<>>

\* the read that matches the write a set of the key issues first
ReadOfWrite(write) == Read(write.ep, write.cluster, write.attr, write.mfr)
ReadsWhatSetWrites ==
    \A value \in SetValues(call.conv, call.key) :
        LET plan == convertSet(call.conv, call.entity, call.key, value)
        IN (~plan.threw /\ plan.ops # <<>> /\ plan.ops[1].op = "write")
              => wire = <<ReadOfWrite(plan.ops[1])>>

\* C17: for a key of the outdoor siren, the Twinguard or the BMCT converter
\* that can be set and read, convertGet does not fail, returns no state patch,
\* and reads the cluster and attribute that the set of that key writes.
C17_GetReadsWhatSetWrites ==
    (call.conv \in {"rbshoszbeu", "twinguard", "bmct"} /\ call.method = "get"
        /\ call.key \in ConverterKeys(call.conv))
        => /\ call.status # "threw"
           /\ ret = Nothing
           /\ call.status = "returned" => ReadsWhatSetWrites

\* the value a set accepts: the demand is clamped, any other value is taken as given
Accepted ==
    IF call.conv = "heatingDemand" THEN numberWithinRange(call.value, 0, 100) ELSE call.value

\* C18: a set of a key of rbshoszbeu, bhius_config, smokeAlarm, broadcastAlarm,
\* twinguard, bmct, heatingDemand or valveAdaptProcess that succeeds has
\* issued its operations and returns a state patch with the accepted value
\* under the key; no patch is returned before the operations have succeeded
\* nor when one fails.
C18_SetReturnsOptimisticPatch ==
    (call.conv \in SetConverters /\ call.method = "set"
        /\ call.key \in ConverterKeys(call.conv))
        => /\ call.status = "returned"
                 => /\ wire = CallPlan.ops
                    /\ call.key \in DOMAIN ret
                    /\ ret[call.key] = Accepted
           /\ call.status # "returned" => ret = Nothing

ValveSet == call.conv = "valveAdaptProcess" /\ call.method = "set"
KnownStatus ==
    IF "valve_adapt_status" \in DOMAIN call.state THEN call.state["valve_adapt_status"]
    ELSE Undefined

\* C19: a set of valve_adapt_process to true sends calibrateValve exactly when
\* the known valve_adapt_status is ready_to_calibrate or error; with any other
\* status it fails, sends nothing and returns no patch. A set to false never
\* sends a command.
C19_CalibrationOnlyWhenReady ==
    ValveSet
        => /\ (call.value = "true" /\ KnownStatus \in {"ready_to_calibrate", "error"})
                 => /\ call.status \in {"running", "returned", "rejected"}
                    /\ call.status # "running" =>
                          wire = <<Command(call.entity, "hvacThermostat", "calibrateValve", 0, TRUE)>>
                    /\ call.status = "returned" => ret = [valve_adapt_process |-> "true"]
           /\ (call.value = "true" /\ KnownStatus \notin {"ready_to_calibrate", "error"})
                 => /\ call.status = "threw"
                    /\ wire = <<>>
                    /\ ret = Nothing
           /\ call.value = "false" => wire = <<>> /\ call.status = "returned"

C19_Witness ==
    /\ ValveSet
    /\ call.value = "true"
    /\ KnownStatus = "calibration_in_progress"
    /\ call.status = "threw"
    /\ wire = <<>>

LedSet ==
    call.conv = "bhius_config" /\ call.method = "set" /\ call.key \in DOMAIN buttonMap

\* C20: a set of an LED configuration key of the Universal Switch II with a
\* hex string that does not decode to exactly 9 bytes fails, writes nothing and
\* returns no patch; with a string of exactly 9 bytes the bytes are written to
\* the attribute buttonMap gives for the key.
C20_LedConfigurationNeedsNineBytes ==
    LedSet
        => /\ Len(BufferFromHex(call.value)) # 9
                 => /\ call.status = "threw"
                    /\ wire = <<>>
                    /\ ret = Nothing
           /\ Len(BufferFromHex(call.value)) = 9
                 => /\ call.status \in {"running", "returned", "rejected"}
                    /\ call.status # "running" =>
                          wire = <<Write(call.entity, "boschSpecific", buttonMap[call.key],
                                         BufferFromHex(call.value), 65, TRUE)>>

C20_Witness ==
    /\ LedSet
    /\ call.key = "config_led_top_left_longpress"
    /\ Len(call.value) = 16
    /\ Len(BufferFromHex(call.value)) = 8
    /\ call.status = "threw"
    /\ wire = <<>>

(***************************************************************************)
(* Codes outside the tables of the decoders                                *)
(***************************************************************************)
\* the attributes of a report that are decoded to a symbol, the property each
\* is published under, and the codes and symbols of its table
EnumAttributes ==
    {"sensitivity", "pre_alarm", "heartbeat", "alarm_status",
     "deviceMode", "switchType", "motorState"}
EnumProperty(attr) ==
    CASE attr = "alarm_status" -> "siren_state"
      [] attr = "deviceMode" -> "device_mode"
      [] attr = "switchType" -> "switch_type"
      [] attr = "motorState" -> "motor_state"
      [] OTHER -> attr
EnumCodes(attr) ==
    CASE attr = "sensitivity" -> TableCodes(smokeSensitivity)
      [] attr \in {"pre_alarm", "heartbeat"} -> TableCodes(stateOffOn)
      [] attr = "alarm_status" -> DOMAIN alarmStatusLookup
      [] attr = "deviceMode" -> TableCodes(stateDeviceMode)
      [] attr = "switchType" -> TableCodes(stateSwitchType)
      [] attr = "motorState" -> TableCodes(stateMotor)
EnumSymbols(attr) ==
    CASE attr = "sensitivity" -> DOMAIN smokeSensitivity
      [] attr \in {"pre_alarm", "heartbeat"} -> DOMAIN stateOffOn
      [] attr = "alarm_status" -> TableCodes(alarmStatusLookup)
      [] attr = "deviceMode" -> DOMAIN stateDeviceMode
      [] attr = "switchType" -> DOMAIN stateSwitchType
      [] attr = "motorState" -> DOMAIN stateMotor
\* a report of the device has been decoded
Reported(device) == rx # NoMsg /\ rx.device = device
EnumReported == Reported("twinguard") \/ Reported("bmct")
\* the zone status word of a decoded contact message and the code of its action
ContactZoneStatus ==
    IF rx.type = "commandStatusChangeNotification" THEN rx.data["zonestatus"]
    ELSE rx.data["zoneStatus"]
ContactActionCode == (ContactZoneStatus \div (2 ^ 11)) % 4
\* a commandAlarm has been decoded and its answer, if any, was delivered
AlarmDecoded == msg.conv = "twinguard_genAlarms" /\ ~threw

\* C21: a decoder that maps a wire code to a symbol (Twinguard sensitivity,
\* pre_alarm, heartbeat, siren_state from alarm_status and from alarmcode; BMCT
\* device_mode, switch_type, motor_state; the contact's action) decodes a code
\* that is not in its table to the marker 'unrecognized' in the patch.
C21_UnknownCodeDecodesToMarker ==
    /\ EnumReported =>
         \A attr \in DOMAIN rx.data \cap EnumAttributes :
            rx.data[attr] \notin EnumCodes(attr)
               => /\ EnumProperty(attr) \in DOMAIN rx.patch
                  /\ rx.patch[EnumProperty(attr)] = "unrecognized"
    /\ (Reported("contact") /\ ContactActionCode \notin DOMAIN contactActionLookup)
         => /\ "action" \in DOMAIN rx.patch
            /\ rx.patch["action"] = "unrecognized"
    /\ (AlarmDecoded /\ msg.alarmcode \notin DOMAIN genAlarmsLookup)
         => result["siren_state"] = "unrecognized"

\* the flags the contact decoder takes from the zone status word
ContactFlags ==
    {"contact", "vibration", "tamper", "battery_low", "supervision_reports",
     "restore_reports", "trouble", "ac_status", "test", "battery_defect"}

\* C22: no decoder fails on a code, inside or outside its table: the decode
\* returns a patch in which the property of the code is a symbol of the table
\* (best effort) or undefined (omitted), and the other fields of the message
\* are decoded as well. The alarm decoder completes for every code unless the
\* answer it sends for a known code is rejected by the transport.
C22_UnknownCodeDoesNotFailDecode ==
    /\ EnumReported =>
         /\ rx.patch # Nothing
         /\ \A attr \in DOMAIN rx.data \cap EnumAttributes :
               /\ EnumProperty(attr) \in DOMAIN rx.patch
               /\ rx.patch[EnumProperty(attr)] \in EnumSymbols(attr) \cup {Undefined}
         /\ "alarm_status" \in DOMAIN rx.data =>
               /\ {"self_test", "smoke"} \subseteq DOMAIN rx.patch
               /\ rx.patch["self_test"] = BitSet(rx.data["alarm_status"], 24)
               /\ rx.patch["smoke"] = BitSet(rx.data["alarm_status"], 7)
         /\ "childLock" \in DOMAIN rx.data =>
               /\ postfixWithEndpointName("child_lock", rx.ep) \in DOMAIN rx.patch
               /\ rx.patch[postfixWithEndpointName("child_lock", rx.ep)]
                     = IF rx.data["childLock"] = 1 THEN "ON" ELSE "OFF"
    /\ Reported("contact") =>
         /\ rx.patch # Nothing
         /\ ContactFlags \subseteq DOMAIN rx.patch
         /\ rx.patch["contact"] = ~BitSet(ContactZoneStatus, 0)
         /\ rx.patch["tamper"] = BitSet(ContactZoneStatus, 2)
         /\ "action" \in DOMAIN rx.patch
               => rx.patch["action"] \in {"single", "long", Undefined}
    /\ (msg.conv = "twinguard_genAlarms"
          /\ (msg.alarmcode \notin DOMAIN genAlarmsLookup \/ msg.transportOk))
         => /\ ~threw
            /\ result # Nothing
            /\ result["siren_state"] \in TableCodes(genAlarmsLookup) \cup {Undefined}

C22_Witness ==
    /\ Reported("twinguard")
    /\ "alarm_status" \in DOMAIN rx.data
    /\ rx.data["alarm_status"] \notin DOMAIN alarmStatusLookup
    /\ rx.patch["siren_state"] = Undefined
    /\ rx.patch["smoke"] = TRUE

\* the commands bhius_button_press puts into an action
ButtonCommands == {"longpress", "longpress_release", "release"}

\* C23: every property a decoder of a profile puts into a patch, and every
\* key its encode converter accepts, is a property the profile exposes: for the
\* BMCT-SLZ in the list exposed for the stored mode, for the contact with a
\* vibration sensor, and for the BHI-US the action of a button and the LED
\* configuration keys.
C23_ConverterPropertiesAreExposed ==
    /\ Reported("bmct") => DOMAIN rx.patch \subseteq Properties(exposes(TRUE, storedDeviceMode))
    /\ Reported("contact") => DOMAIN rx.patch \subseteq contactExposes(TRUE)
    /\ \A name \in ButtonNames, command \in ButtonCommands :
          DOMAIN ActionPatch(name, command) \subseteq bhiusExposes
    /\ DOMAIN buttonMap \subseteq bhiusExposes

\* a set of pi_heating_demand, the demand it has to write and the write of it
DemandSet == SetOf("heatingDemand", "pi_heating_demand")
ClampedDemand ==
    IF call.value > 100 THEN 100 ELSE IF call.value < 0 THEN 0 ELSE call.value
DemandWrite == Write(call.entity, "hvacThermostat", "heatingDemand", ClampedDemand, 0, TRUE)

\* C24: a set of pi_heating_demand to a number v writes min(100, max(0, v)) to
\* heatingDemand and nothing else, never a value outside 0..100, and the
\* patch it returns carries the same clamped value.
C24_HeatingDemandIsClamped ==
    DemandSet
        => /\ call.status \in {"running", "returned", "rejected"}
           /\ \A i \in DOMAIN wire : wire[i] = DemandWrite /\ wire[i].value \in 0..100
           /\ call.status # "running" => wire = <<DemandWrite>>
           /\ call.status = "returned" => ret = [pi_heating_demand |-> ClampedDemand]

C24_Witness ==
    /\ DemandSet
    /\ call.value = 150
    /\ call.status = "returned"
    /\ wire # <<>>
    /\ wire[1].value = 100
    /\ ret = [pi_heating_demand |-> 100]

(***************************************************************************)
(* The acknowledgments of the button decoder, and unknown buttons          *)
(***************************************************************************)
\* the decode sent the confirmButtonPressed command
Acknowledged == sent' # NoCommand
\* the decode returned the action of a release
ReleaseAction ==
    /\ result' # Nothing
    /\ \E name \in ButtonNames, command \in {"release", "longpress_release"} :
          result' = [action |-> "button_" \o name \o "_" \o command]

\* C25: a decode sends confirmButtonPressed, once and to the endpoint of the
\* message, exactly when it processes a release or long-press release of a
\* known button, which is exactly when it returns a release or
\* longpress_release action; a hold notification, a message dropped as already
\* processed and a message of an unknown button send nothing.
C25_AcknowledgedExactlyOncePerRelease ==
    [][ButtonStep =>
        /\ Acknowledged <=> (FreshButtonStep /\ KnownButton(msg') /\ IsReleaseMsg(msg'))
        /\ Acknowledged <=> ReleaseAction
        /\ Acknowledged =>
              /\ sent' = [cmd |-> "confirmButtonPressed", ep |-> msg'.ep]
              /\ inflight' = [inflight EXCEPT ![msg'.ep] = @ + 1]
        /\ ~Acknowledged => inflight' = inflight]_vars

\* C25 witness: the long-press release that ends a pending hold was acknowledged.
C25_Witness ==
    /\ msg.conv = "bhius_button_press"
    /\ KnownButton(msg)
    /\ msg.longPress # 0
    /\ IsReleaseMsg(msg)
    /\ cleared = "entry"
    /\ sent = [cmd |-> "confirmButtonPressed", ep |-> msg.ep]
    /\ result = [action |-> "button_" \o buttons[msg.buttonId] \o "_longpress_release"]

IssuedInOrder(expected) ==
    /\ call.status \in {"running", "returned", "rejected"}
    /\ IsPrefix(wire, expected)
    /\ call.status = "returned" => wire = expected
    /\ call.status = "rejected" => wire # <<>>
    /\ call.status = "running" => Len(wire) < Len(expected)

DeviceModeSetOf ==
    SetOf("bmct", "device_mode") /\ call.value \in DOMAIN stateDeviceMode

\* C27: a set of device_mode writes deviceMode and, only after the write has
\* succeeded, reads deviceMode; the patch {device_mode: value} is returned
\* only after the read has succeeded; a failed write is followed by no read,
\* and a failure of either returns no patch.
C27_DeviceModeWriteThenRead ==
    DeviceModeSetOf
        => /\ IssuedInOrder(<<Write(call.entity, "boschSpecific", "deviceMode",
                                    stateDeviceMode[call.value], 0, FALSE),
                              Read(call.entity, "boschSpecific", "deviceMode", FALSE)>>)
           /\ ret = IF call.status = "returned" THEN [device_mode |-> call.value] ELSE Nothing

\* C27 witness: the write failed, no read was issued and no patch returned.
C27_Witness ==
    /\ DeviceModeSetOf
    /\ call.status = "rejected"
    /\ Len(wire) = 1
    /\ wire[1].op = "write"
    /\ ret = Nothing

AlarmSetOf(value) == SetOf("twinguard", "alarm") /\ call.value = value

\* C28: a set of the Twinguard alarm to 'stop' sends the alarm response 0x16,
\* then the alarm response 0x14, then burglarAlarm with data 0 on endpoint 12,
\* each only after the one before has succeeded; 'pre_alarm' sends the one
\* alarm response 0x11, 'fire' the one alarm response 0x10 and 'burglar' the
\* one burglarAlarm with data 1; nothing else is sent.
C28_AlarmCommandsInOrder ==
    /\ AlarmSetOf("stop")
          => IssuedInOrder(<<AlarmResponse(call.entity, 22), AlarmResponse(call.entity, 20),
                             Command(12, "twinguardAlarm", "burglarAlarm", 0, FALSE)>>)
    /\ AlarmSetOf("pre_alarm") => IssuedInOrder(<<AlarmResponse(call.entity, 17)>>)
    /\ AlarmSetOf("fire") => IssuedInOrder(<<AlarmResponse(call.entity, 16)>>)
    /\ AlarmSetOf("burglar")
          => IssuedInOrder(<<Command(12, "twinguardAlarm", "burglarAlarm", 1, FALSE)>>)
    /\ (SetOf("twinguard", "alarm") /\ call.value \notin DOMAIN sirenState) => wire = <<>>

\* C28 witness: the stop was rejected at its second command, the third never sent.
C28_Witness ==
    /\ AlarmSetOf("stop")
    /\ call.status = "rejected"
    /\ Len(wire) = 2
    /\ wire[2] = AlarmResponse(call.entity, 20)

(***************************************************************************)
(* The answer of ignoreDst                                                 *)
(***************************************************************************)
TimeRequested == msg.conv = "ignoreDst"
Answered == sent # NoCommand

\* C29: ignoreDst answers a genTime read request exactly when the request
\* asks for dstStart, with or without dstEnd and dstShift; the answer carries
\* dstStart, dstEnd and dstShift, each with status SUCCESS and value 0, under
\* the transaction sequence number of the request, on the request's endpoint
\* and cluster; a request without dstStart gets no answer.
C29_IgnoreDstAnswersDstStart ==
    TimeRequested
        => /\ Answered <=> "dstStart" \in msg.data
           /\ Answered =>
                 /\ sent.cmd = "readResponse"
                 /\ sent.ep = msg.ep
                 /\ sent.cluster = "genTime"
                 /\ sent.tsn = msg.zclTransactionSequenceNumber
                 /\ DOMAIN sent.response = {"dstStart", "dstEnd", "dstShift"}
                 /\ \A attr \in DOMAIN sent.response :
                       /\ sent.response[attr].status = "SUCCESS"
                       /\ sent.response[attr].value = 0

\* C29 witness: a request for dstStart alone, with a nonzero sequence number, was
\* answered with all three attributes.
C29_Witness ==
    /\ TimeRequested
    /\ msg.data = {"dstStart"}
    /\ msg.zclTransactionSequenceNumber = 1
    /\ Answered
    /\ sent.tsn = 1
    /\ "dstShift" \in DOMAIN sent.response

(***************************************************************************)
(* The air quality values of the Twinguard                                 *)
(***************************************************************************)
\* an air purity reading within the exposed range has been decoded
AirPurityReported ==
    /\ Reported("twinguard")
    /\ rx.cluster = "twinguardMeasurements"
    /\ rx.data["airpurity"] \in 0..500
\* the values decoded from the reading one below
BelowReading == twinguardMeasurements_convert([airpurity |-> rx.data["airpurity"] - 1])

\* C30: for an air purity reading iaq in 0..500 the patch has aqi = iaq,
\* voc = iaq * f and co2 = iaq * g + 400, with (f, g) = (6, 2) up to 50,
\* (10, 4) for 51..100, (20, 4) for 101..150, (50, 4) for 151..200 and (100, 4)
\* above; voc stays within 0..50000 and co2 within 400..2400, and neither is
\* lower than for the reading one below.
C30_AirQualityValues ==
    AirPurityReported
        => LET iaq == rx.data["airpurity"]
               f == CASE iaq <= 50 -> 6 [] iaq \in 51..100 -> 10 [] iaq \in 101..150 -> 20
                      [] iaq \in 151..200 -> 50 [] OTHER -> 100
               g == IF iaq <= 50 THEN 2 ELSE 4
           IN /\ rx.patch["aqi"] = iaq
              /\ rx.patch["voc"] = iaq * f
              /\ rx.patch["co2"] = iaq * g + 400
              /\ rx.patch["voc"] \in 0..50000
              /\ rx.patch["co2"] \in 400..2400
              /\ iaq > 0 => /\ rx.patch["voc"] >= BelowReading["voc"]
                            /\ rx.patch["co2"] >= BelowReading["co2"]

\* C30 witness: the highest reading of the range gives the highest exposed values.
C30_Witness ==
    /\ AirPurityReported
    /\ rx.data["airpurity"] = 500
    /\ rx.patch["voc"] = 50000
    /\ rx.patch["co2"] = 2400

====
